---- MODULE Spec2Model ----
(***************************************************************************)
(* A model of imap_data_access/file_validation.py: the three file-name     *)
(* grammars (science, ancillary, SPICE), the dispatcher                    *)
(* generate_imap_file_path, the generate_from_inputs helpers and the       *)
(* construct_path methods.                                                 *)
(*                                                                         *)
(* A Python str is a sequence of one-character strings, so that regular    *)
(* expressions, str.lower(), int(), f-string formatting and pathlib's      *)
(* splitting are computed character by character, as the code does.        *)
(* A Python value that may be None, a str or an int is a tagged record.    *)
(* A call that raises is the record [ok |-> FALSE, exc |-> <class name>].  *)
(***************************************************************************)
EXTENDS Integers, Sequences, FiniteSets, TLC

VARIABLES
    data_dir,   \* imap_data_access.config["DATA_DIR"]: PyNone or a path
    pc,         \* "idle" | "returned" | "pathed"
    call,       \* the call made: its name and its arguments
    result,     \* what the call returned or raised
    consulted,  \* the constructors generate_imap_file_path has called, in order
    path,       \* what construct_path returned or raised on the returned object
    time_range, \* what get_time_range returned on the returned Processing Input
    collection, \* a ProcessingInputCollection: its processing_input list
    wire,       \* the last list serialize() returned
    deser       \* a second ProcessingInputCollection, created empty

vars == <<data_dir, pc, call, result, consulted, path, time_range, collection, wire, deser>>

\* the variables of the Processing Inputs and their collections
input_vars == <<time_range, collection, wire, deser>>

-----------------------------------------------------------------------------
(* Python values                                                           *)

PyNone == [t |-> "none"]
PyStr(s) == [t |-> "str", s |-> s]
PyInt(n) == [t |-> "int", n |-> n]

IsNone(v) == v.t = "none"

\* bool(v) of None, a str, an int or a Path
Truthy(v) ==
    CASE v.t = "none" -> FALSE
      [] v.t = "str" -> Len(v.s) > 0
      [] v.t = "int" -> v.n # 0
      [] v.t = "path" -> TRUE

Return(v) == [ok |-> TRUE, val |-> v]
Raise(e) == [ok |-> FALSE, exc |-> e, msg |-> <<>>]
RaiseMsg(e, m) == [ok |-> FALSE, exc |-> e, msg |-> m]

-----------------------------------------------------------------------------
(* Characters and strings                                                  *)

DigitSeq == <<"0","1","2","3","4","5","6","7","8","9">>
LowerSeq == <<"a","b","c","d","e","f","g","h","i","j","k","l","m","n","o","p","q","r","s","t","u","v","w","x","y","z">>
UpperSeq == <<"A","B","C","D","E","F","G","H","I","J","K","L","M","N","O","P","Q","R","S","T","U","V","W","X","Y","Z">>

Range(f) == {f[i] : i \in DOMAIN f}

Digits == Range(DigitSeq)
LowerLetters == Range(LowerSeq)
UpperLetters == Range(UpperSeq)
Letters == LowerLetters \cup UpperLetters

\* The characters file names are written in.
Alphabet == Digits \cup Letters \cup {"_", "-", ".", "/", " ", "\n"}

\* str.lower(), one character
ToLower(c) ==
    IF c \in UpperLetters
    THEN LowerSeq[CHOOSE i \in DOMAIN UpperSeq : UpperSeq[i] = c]
    ELSE c

\* str.lower()
Lower(s) == [i \in 1..Len(s) |-> ToLower(s[i])]

IsDigit(c) == c \in Digits

DigitVal(c) == (CHOOSE i \in DOMAIN DigitSeq : DigitSeq[i] = c) - 1

RECURSIVE DecimalValue(_)
DecimalValue(s) ==
    IF Len(s) = 0 THEN 0
    ELSE 10 * DecimalValue(SubSeq(s, 1, Len(s) - 1)) + DigitVal(s[Len(s)])

\* int(x) of a regex capture: None raises TypeError, "" raises ValueError,
\* a run of digits gives its decimal value.
IntOf(v) ==
    IF v.t = "none" THEN Raise("TypeError")
    ELSE IF v.t = "int" THEN Return(v)
    ELSE IF Len(v.s) = 0 \/ \E i \in DOMAIN v.s : v.s[i] \notin Digits
         THEN Raise("ValueError")
         ELSE Return(PyInt(DecimalValue(v.s)))

RECURSIVE DecimalDigits(_)
DecimalDigits(n) ==
    IF n < 10 THEN <<DigitSeq[n + 1]>>
    ELSE DecimalDigits(n \div 10) \o <<DigitSeq[(n % 10) + 1]>>

RECURSIVE ZeroPad(_, _)
ZeroPad(s, width) == IF Len(s) >= width THEN s ELSE ZeroPad(<<"0">> \o s, width)

\* f"{n:0<width>d}" of an int: the sign, then the digits zero-padded so that
\* the whole field is at least width characters wide.
FormatZeroPadded(n, width) ==
    IF n < 0 THEN <<"-">> \o ZeroPad(DecimalDigits(0 - n), width - 1)
    ELSE ZeroPad(DecimalDigits(n), width)

RECURSIVE Cat(_)
Cat(ss) == IF Len(ss) = 0 THEN <<>> ELSE Head(ss) \o Cat(Tail(ss))

-----------------------------------------------------------------------------
(* pathlib.Path (POSIX flavour)                                            *)

\* the k-th smallest element of a set of numbers
Nth(P, k) == CHOOSE x \in P : Cardinality({y \in P : y < x}) = k - 1

\* the pieces of s between the positions cuts (0 and Len(s) + 1 among them)
Pieces(s, cuts) ==
    [k \in 1..(Cardinality(cuts) - 1) |-> SubSeq(s, Nth(cuts, k) + 1, Nth(cuts, k + 1) - 1)]

\* s.split(sep), sep one character
SplitOn(s, sep) == Pieces(s, {i \in 1..Len(s) : s[i] = sep} \cup {0, Len(s) + 1})

IsPathPart(p) == p # <<>> /\ p # <<".">>

\* Path(s): empty and "." components are dropped, a leading "/" makes it absolute
PathOf(s) ==
    [t |-> "path",
     abs |-> Len(s) > 0 /\ s[1] = "/",
     parts |-> SelectSeq(SplitOn(s, "/"), IsPathPart)]

\* Path.name
PathName(p) == IF Len(p.parts) = 0 THEN <<>> ELSE p.parts[Len(p.parts)]

RECURSIVE JoinWith(_, _)
JoinWith(parts, sep) ==
    IF Len(parts) = 0 THEN <<>>
    ELSE IF Len(parts) = 1 THEN parts[1]
    ELSE parts[1] \o <<sep>> \o JoinWith(Tail(parts), sep)

\* str(Path)
PathStr(p) ==
    IF p.abs THEN <<"/">> \o JoinWith(p.parts, "/")
    ELSE IF Len(p.parts) = 0 THEN <<".">>
    ELSE JoinWith(p.parts, "/")

\* a / b: an absolute right operand replaces the left one
PathJoin(a, b) ==
    IF b.abs THEN b ELSE [t |-> "path", abs |-> a.abs, parts |-> a.parts \o b.parts]

-----------------------------------------------------------------------------
(* Regular expressions: re.match with Python's backtracking order          *)

Lit(s) == [k |-> "lit", s |-> s]
AnyChar == [k |-> "any"]                                   \* .
Rep(cls, lo, hi) == [k |-> "rep", cls |-> cls, lo |-> lo, hi |-> hi, many |-> FALSE]
Plus(cls) == [k |-> "rep", cls |-> cls, lo |-> 1, hi |-> 1, many |-> TRUE]   \* [..]+
Star(cls) == [k |-> "rep", cls |-> cls, lo |-> 0, hi |-> 0, many |-> TRUE]   \* [..]*
One(cls) == Rep(cls, 1, 1)
Alt(alts) == [k |-> "alt", alts |-> alts]                  \* a|b, in order
Opt(items) == Alt(<<items, <<>>>>)                         \* (..)?, greedy
Eos == [k |-> "eos"]                                       \* $
Open(g) == [k |-> "open", g |-> g]
Close(g) == [k |-> "close", g |-> g]
Group(g, items) == <<Open(g)>> \o items \o <<Close(g)>>   \* (?P<g>..)

RECURSIVE GroupsOf(_)
GroupsOf(items) ==
    IF Len(items) = 0 THEN {}
    ELSE LET it == Head(items) IN
         (CASE it.k = "open" -> {it.g}
            [] it.k = "alt" -> UNION {GroupsOf(it.alts[i]) : i \in DOMAIN it.alts}
            [] OTHER -> {})
         \cup GroupsOf(Tail(items))

NoMatch == [ok |-> FALSE]

\* the length of the run of characters of cls that starts at position pos of s
RunLen(s, pos, cls) ==
    CHOOSE n \in 0..(Len(s) + 1 - pos) :
        /\ \A i \in pos..(pos + n - 1) : s[i] \in cls
        /\ (pos + n > Len(s) \/ s[pos + n] \notin cls)

Min(a, b) == IF a < b THEN a ELSE b

RECURSIVE MatchFrom(_, _, _, _)
RECURSIVE TryRep(_, _, _, _, _, _)
RECURSIVE TryAlt(_, _, _, _, _)

\* The first way, in backtracking order, to match items at position pos of s.
MatchFrom(items, s, pos, caps) ==
    IF Len(items) = 0 THEN [ok |-> TRUE, caps |-> caps, end |-> pos]
    ELSE LET it == Head(items)
             rest == Tail(items)
         IN CASE it.k = "lit" ->
                   IF pos + Len(it.s) - 1 <= Len(s)
                      /\ SubSeq(s, pos, pos + Len(it.s) - 1) = it.s
                   THEN MatchFrom(rest, s, pos + Len(it.s), caps)
                   ELSE NoMatch
              [] it.k = "any" ->
                   IF pos <= Len(s) /\ s[pos] # "\n"
                   THEN MatchFrom(rest, s, pos + 1, caps)
                   ELSE NoMatch
              [] it.k = "rep" ->
                   LET run == RunLen(s, pos, it.cls)
                   IN TryRep(it, rest, s, pos, caps,
                             IF it.many THEN run ELSE Min(run, it.hi))
              [] it.k = "alt" -> TryAlt(it.alts, rest, s, pos, caps)
              [] it.k = "eos" ->
                   IF pos = Len(s) + 1 \/ (pos = Len(s) /\ s[pos] = "\n")
                   THEN MatchFrom(rest, s, pos, caps)
                   ELSE NoMatch
              [] it.k = "open" ->
                   MatchFrom(rest, s, pos,
                             [caps EXCEPT ![it.g] = [t |-> "open", from |-> pos]])
              [] it.k = "close" ->
                   MatchFrom(rest, s, pos,
                             [caps EXCEPT ![it.g] = PyStr(SubSeq(s, @.from, pos - 1))])

\* a greedy repetition: the longest run first, then one character less at a time
TryRep(it, rest, s, pos, caps, n) ==
    IF n < it.lo THEN NoMatch
    ELSE LET r == MatchFrom(rest, s, pos + n, caps)
         IN IF r.ok THEN r ELSE TryRep(it, rest, s, pos, caps, n - 1)

\* an alternation: the first alternative after which the rest matches
TryAlt(alts, rest, s, pos, caps) ==
    IF Len(alts) = 0 THEN NoMatch
    ELSE LET r == MatchFrom(Head(alts) \o rest, s, pos, caps)
         IN IF r.ok THEN r ELSE TryAlt(Tail(alts), rest, s, pos, caps)

\* re.match(pattern, s): anchored at the start of s, not at its end.
\* On success caps is m.groupdict(): a group that took no part is None.
ReMatch(items, s) == MatchFrom(items, s, 1, [g \in GroupsOf(items) |-> PyNone])

-----------------------------------------------------------------------------
(* Format grammar: ImapFilePath.is_valid_date                              *)

\* the regular expression datetime.strptime builds for "%Y%m%d"
StrptimeYmdPattern ==
    Group("Y", <<Rep(Digits, 4, 4)>>)
    \o Group("m", <<Alt(<< <<Lit(<<"1">>), One({"0", "1", "2"})>>,
                          <<Lit(<<"0">>), One(Digits \ {"0"})>>,
                          <<One(Digits \ {"0"})>> >>)>>)
    \o Group("d", <<Alt(<< <<Lit(<<"3">>), One({"0", "1"})>>,
                          <<One({"1", "2"}), One(Digits)>>,
                          <<Lit(<<"0">>), One(Digits \ {"0"})>>,
                          <<One(Digits \ {"0"})>>,
                          <<Lit(<<" ">>), One(Digits \ {"0"})>> >>)>>)

IsLeapYear(y) == (y % 4 = 0 /\ y % 100 # 0) \/ y % 400 = 0

DaysInMonth(y, m) ==
    IF m = 2 THEN (IF IsLeapYear(y) THEN 29 ELSE 28)
    ELSE IF m \in {4, 6, 9, 11} THEN 30 ELSE 31

\* datetime.date(y, m, d) does not raise
IsCalendarDate(y, m, d) ==
    /\ y >= 1
    /\ m \in 1..12
    /\ d >= 1 /\ d <= DaysInMonth(y, m)

\* what strptime does with the match m of its pattern on input_date: it refuses
\* unconverted data after the match, then builds the date
StrptimeAccepts(m, input_date) ==
    /\ m.ok
    /\ m.end = Len(input_date) + 1
    /\ IsCalendarDate(DecimalValue(m.caps["Y"].s),
                      DecimalValue(m.caps["m"].s),
                      DecimalValue(SelectSeq(m.caps["d"].s, IsDigit)))

\* ImapFilePath.is_valid_date(input_date): strptime(input_date, "%Y%m%d") does not raise
is_valid_date(input_date) ==
    StrptimeAccepts(ReMatch(StrptimeYmdPattern, input_date), input_date)

-----------------------------------------------------------------------------
(* The domain vocabularies of the package (imap_data_access/__init__.py)   *)

VALID_INSTRUMENTS ==
    {<<"c","o","d","i","c","e">>, <<"g","l","o","w","s">>, <<"h","i">>, <<"h","i","t">>, <<"i","d","e","x">>, <<"l","o">>, <<"m","a","g">>, <<"s","w","a","p","i">>, <<"s","w","e">>, <<"u","l","t","r","a">>}

VALID_DATALEVELS == {<<"l","0">>, <<"l","1">>, <<"l","1","a">>, <<"l","1","b">>, <<"l","3","a">>}

VALID_FILE_EXTENSION == {<<"p","k","t","s">>, <<"c","d","f">>}

VALID_ANCILLARY_FILE_EXTENSION == {<<"c","d","f">>, <<"c","s","v">>, <<"j","s","o","n">>}

-----------------------------------------------------------------------------
(* Science file names: class ScienceFilePath                               *)

NotUnderscore == Alphabet \ {"_"}

\* the science pattern with a repointing of 4 or 5 digits
SciencePatternShortRepoint ==
    Group("mission", <<Lit(<<"i","m","a","p">>)>>) \o <<Lit(<<"_">>)>>
    \o Group("instrument", <<Plus(NotUnderscore)>>) \o <<Lit(<<"_">>)>>
    \o Group("data_level", <<Plus(NotUnderscore)>>) \o <<Lit(<<"_">>)>>
    \o Group("descriptor", <<Plus(NotUnderscore)>>) \o <<Lit(<<"_">>)>>
    \o Group("start_date", <<Rep(Digits, 8, 8)>>)
    \o <<Opt(<<Lit(<<"-","r","e","p","o","i","n","t">>)>> \o Group("repointing", <<Rep(Digits, 4, 5)>>))>>
    \o <<Lit(<<"_">>)>> \o Group("version", <<Lit(<<"v">>), Rep(Digits, 3, 3)>>)
    \o <<Lit(<<".">>)>>
    \o Group("extension", <<Alt(<< <<Lit(<<"c","d","f">>)>>, <<Lit(<<"p","k","t","s">>)>> >>)>>)
    \o <<Eos>>

\* the pattern of ScienceFilePath.extract_filename_components
SciencePattern ==
    Group("mission", <<Lit(<<"i","m","a","p">>)>>) \o <<Lit(<<"_">>)>>
    \o Group("instrument", <<Plus(NotUnderscore)>>) \o <<Lit(<<"_">>)>>
    \o Group("data_level", <<Plus(NotUnderscore)>>) \o <<Lit(<<"_">>)>>
    \o Group("descriptor", <<Plus(NotUnderscore)>>) \o <<Lit(<<"_">>)>>
    \o Group("start_date", <<Rep(Digits, 8, 8)>>)
    \o <<Opt(<<Lit(<<"-","r","e","p","o","i","n","t">>)>> \o Group("repointing", <<Rep(Digits, 5, 5)>>))>>
    \o <<Lit(<<"_">>)>> \o Group("version", <<Lit(<<"v">>), Rep(Digits, 3, 3)>>)
    \o <<Lit(<<".">>)>>
    \o Group("extension", <<Alt(<< <<Lit(<<"c","d","f">>)>>, <<Lit(<<"p","k","t","s">>)>> >>)>>)
    \o <<Eos>>

\* what extract_filename_components does with the match m of its pattern
ScienceComponents(m) ==
    IF ~m.ok THEN Raise("InvalidScienceFileError")
    ELSE IF Truthy(m.caps["repointing"])
         THEN Return([m.caps EXCEPT !["repointing"] = IntOf(@).val])
         ELSE Return(m.caps)

\* ScienceFilePath.extract_filename_components(filename), filename a Path
ScienceExtractFilenameComponents(filename) ==
    ScienceComponents(ReMatch(SciencePattern, PathName(filename)))

VersionPattern == <<Lit(<<"v">>), Rep(Digits, 3, 3), Eos>>

IsEmptyAttr(v) == IsNone(v) \/ (v.t = "str" /\ Len(v.s) = 0)

\* validate_filename that returns at the first violation it finds
ValidateFailFast(self) ==
    IF \E a \in {"mission", "instrument", "data_level", "descriptor",
                 "start_date", "version", "extension"} : IsEmptyAttr(self[a])
    THEN <<"missing attribute">>
    ELSE IF self.mission # PyStr(<<"i","m","a","p">>) THEN <<"mission">>
    ELSE IF self.instrument.s \notin VALID_INSTRUMENTS THEN <<"instrument">>
    ELSE IF self.data_level.s \notin VALID_DATALEVELS THEN <<"data level">>
    ELSE IF ~is_valid_date(self.start_date.s) THEN <<"start date">>
    ELSE IF ~ReMatch(VersionPattern, self.version.s).ok THEN <<"version">>
    ELSE IF Truthy(self.repointing) /\ self.repointing.t # "int" THEN <<"repointing">>
    ELSE IF \/ self.extension.s \notin VALID_FILE_EXTENSION
            \/ (self.data_level.s = <<"l","0">> /\ self.extension.s # <<"p","k","t","s">>)
            \/ (self.data_level.s # <<"l","0">> /\ self.extension.s # <<"c","d","f">>)
    THEN <<"extension">>
    ELSE <<>>

\* validate_filename with the test of the extension left out
ValidateWithoutExtension(self) ==
    (IF \E a \in {"mission", "instrument", "data_level", "descriptor",
                  "start_date", "version", "extension"} : IsEmptyAttr(self[a])
     THEN <<"missing attribute">> ELSE <<>>)
    \o (IF self.mission # PyStr(<<"i","m","a","p">>) THEN <<"mission">> ELSE <<>>)
    \o (IF self.instrument.s \notin VALID_INSTRUMENTS THEN <<"instrument">> ELSE <<>>)
    \o (IF self.data_level.s \notin VALID_DATALEVELS THEN <<"data level">> ELSE <<>>)
    \o (IF ~is_valid_date(self.start_date.s) THEN <<"start date">> ELSE <<>>)
    \o (IF ~ReMatch(VersionPattern, self.version.s).ok THEN <<"version">> ELSE <<>>)
    \o (IF Truthy(self.repointing) /\ self.repointing.t # "int"
        THEN <<"repointing">> ELSE <<>>)

\* one entry per line that ScienceFilePath.validate_filename adds to error_message
ScienceValidateFilename(self) ==
    (IF \E a \in {"mission", "instrument", "data_level", "descriptor",
                  "start_date", "version", "extension"} : IsEmptyAttr(self[a])
     THEN <<"missing attribute">> ELSE <<>>)
    \o (IF self.mission # PyStr(<<"i","m","a","p">>) THEN <<"mission">> ELSE <<>>)
    \o (IF self.instrument.s \notin VALID_INSTRUMENTS THEN <<"instrument">> ELSE <<>>)
    \o (IF self.data_level.s \notin VALID_DATALEVELS THEN <<"data level">> ELSE <<>>)
    \o (IF ~is_valid_date(self.start_date.s) THEN <<"start date">> ELSE <<>>)
    \o (IF ~ReMatch(VersionPattern, self.version.s).ok THEN <<"version">> ELSE <<>>)
    \o (IF Truthy(self.repointing) /\ self.repointing.t # "int"
        THEN <<"repointing">> ELSE <<>>)
    \o (IF \/ self.extension.s \notin VALID_FILE_EXTENSION
           \/ (self.data_level.s = <<"l","0">> /\ self.extension.s # <<"p","k","t","s">>)
           \/ (self.data_level.s # <<"l","0">> /\ self.extension.s # <<"c","d","f">>)
        THEN <<"extension">> ELSE <<>>)

\* the end of __init__: raise if validate_filename returned a message
RaiseIfMessage(error_message, exc, self) ==
    IF Len(error_message) > 0 THEN RaiseMsg(exc, error_message) ELSE Return(self)

\* the last lines of ScienceFilePath.__init__
ScienceValidated(self) ==
    RaiseIfMessage(ScienceValidateFilename(self), "InvalidScienceFileError", self)

\* ScienceFilePath.__init__ with the descriptor taken from the data level
ScienceInitDescriptorFromLevel(file, split, dir) ==
    IF ~split.ok
    THEN (IF split.exc = "ValueError" THEN Raise("InvalidScienceFileError") ELSE split)
    ELSE ScienceValidated([kind |-> "science",
                           filename |-> file,
                           data_dir |-> dir,
                           mission |-> split.val["mission"],
                           instrument |-> split.val["instrument"],
                           data_level |-> split.val["data_level"],
                           descriptor |-> split.val["data_level"],
                           start_date |-> split.val["start_date"],
                           repointing |-> split.val["repointing"],
                           version |-> split.val["version"],
                           extension |-> split.val["extension"]])

\* ScienceFilePath.__init__ once extract_filename_components has returned or
\* raised (split): the fields, then validate_filename
ScienceInit(file, split, dir) ==
    IF ~split.ok
    THEN (IF split.exc = "ValueError" THEN Raise("InvalidScienceFileError") ELSE split)
    ELSE ScienceValidated([kind |-> "science",
                           filename |-> file,
                           data_dir |-> dir,
                           mission |-> split.val["mission"],
                           instrument |-> split.val["instrument"],
                           data_level |-> split.val["data_level"],
                           descriptor |-> split.val["descriptor"],
                           start_date |-> split.val["start_date"],
                           repointing |-> split.val["repointing"],
                           version |-> split.val["version"],
                           extension |-> split.val["extension"]])

\* ScienceFilePath(filename) with config["DATA_DIR"] = dir
ScienceFilePath(filename, dir) ==
    ScienceInit(PathOf(filename), ScienceExtractFilenameComponents(PathOf(filename)), dir)

\* generate_from_inputs that writes the extension cdf whatever the data level
ScienceGenerateAlwaysCdf(instrument, data_level, descriptor, start_time, version, repointing, dir) ==
    LET time_field == IF Truthy(repointing)
                      THEN start_time \o <<"-","r","e","p","o","i","n","t">> \o FormatZeroPadded(repointing.n, 5)
                      ELSE start_time
        filename == Cat(<<<<"i","m","a","p","_">>, instrument, <<"_">>, data_level, <<"_">>, descriptor,
                          <<"_">>, time_field, <<"_">>, version, <<".">>, <<"c","d","f">>>>)
    IN ScienceFilePath(filename, dir)

\* ScienceFilePath.generate_from_inputs; repointing is PyNone or a PyInt
ScienceGenerateFromInputs(instrument, data_level, descriptor, start_time, version, repointing, dir) ==
    LET extension == IF data_level = <<"l","0">> THEN <<"p","k","t","s">> ELSE <<"c","d","f">>
        time_field == IF Truthy(repointing)
                      THEN start_time \o <<"-","r","e","p","o","i","n","t">> \o FormatZeroPadded(repointing.n, 5)
                      ELSE start_time
        filename == Cat(<<<<"i","m","a","p","_">>, instrument, <<"_">>, data_level, <<"_">>, descriptor,
                          <<"_">>, time_field, <<"_">>, version, <<".">>, extension>>)
    IN ScienceFilePath(filename, dir)

\* ScienceFilePath.construct_path
ScienceConstructPath(self) ==
    LET upload_path == PathOf(Cat(<<self.mission.s, <<"/">>, self.instrument.s, <<"/">>,
                                    self.data_level.s, <<"/">>,
                                    SubSeq(self.start_date.s, 1, 4), <<"/">>,
                                    SubSeq(self.start_date.s, 5, 6), <<"/">>,
                                    PathStr(self.filename)>>))
    IN IF ~Truthy(self.data_dir) THEN Return(upload_path)
       ELSE Return(PathJoin(self.data_dir, upload_path))

-----------------------------------------------------------------------------
(* Ancillary file names: class AncillaryFilePath                           *)

\* the pattern of AncillaryFilePath.extract_filename_components
AncillaryPattern ==
    Group("mission", <<Lit(<<"i","m","a","p">>)>>) \o <<Lit(<<"_">>)>>
    \o Group("instrument", <<Plus(NotUnderscore)>>) \o <<Lit(<<"_">>)>>
    \o Group("descriptor", <<Plus(NotUnderscore)>>) \o <<Lit(<<"_">>)>>
    \o Group("start_date", <<Rep(Digits, 8, 8)>>)
    \o <<Opt(<<Lit(<<"_">>)>> \o Group("end_date", <<Rep(Digits, 8, 8)>>))>>
    \o <<Lit(<<"_">>)>> \o Group("version", <<Lit(<<"v">>), Rep(Digits, 3, 3)>>)
    \o <<Lit(<<".">>)>>
    \o Group("extension", <<Alt(<< <<Lit(<<"c","d","f">>)>>, <<Lit(<<"c","s","v">>)>>, <<Lit(<<"j","s","o","n">>)>> >>)>>)
    \o <<Eos>>

\* what extract_filename_components does with the match m of its pattern
AncillaryComponents(m) ==
    IF ~m.ok THEN Raise("InvalidAncillaryFileError") ELSE Return(m.caps)

\* AncillaryFilePath.extract_filename_components(filename), filename a Path
AncillaryExtractFilenameComponents(filename) ==
    AncillaryComponents(ReMatch(AncillaryPattern, PathName(filename)))

\* validate_filename that also refuses an end date before the start date
AncillaryValidateOrdered(self) ==
    (IF \E a \in {"mission", "instrument", "descriptor", "version", "extension"} :
            IsEmptyAttr(self[a])
     THEN <<"missing attribute">> ELSE <<>>)
    \o (IF self.mission # PyStr(<<"i","m","a","p">>) THEN <<"mission">> ELSE <<>>)
    \o (IF self.instrument.s \notin VALID_INSTRUMENTS THEN <<"instrument">> ELSE <<>>)
    \o (IF self.extension.s \notin VALID_ANCILLARY_FILE_EXTENSION
        THEN <<"extension">> ELSE <<>>)
    \o (IF ~is_valid_date(self.start_date.s) THEN <<"start date">> ELSE <<>>)
    \o (IF Truthy(self.end_date)
           /\ (\/ ~is_valid_date(self.end_date.s)
               \/ DecimalValue(self.end_date.s) < DecimalValue(self.start_date.s))
        THEN <<"end date">> ELSE <<>>)

\* one entry per line that AncillaryFilePath.validate_filename adds to error_message
AncillaryValidateFilename(self) ==
    (IF \E a \in {"mission", "instrument", "descriptor", "version", "extension"} :
            IsEmptyAttr(self[a])
     THEN <<"missing attribute">> ELSE <<>>)
    \o (IF self.mission # PyStr(<<"i","m","a","p">>) THEN <<"mission">> ELSE <<>>)
    \o (IF self.instrument.s \notin VALID_INSTRUMENTS THEN <<"instrument">> ELSE <<>>)
    \o (IF self.extension.s \notin VALID_ANCILLARY_FILE_EXTENSION
        THEN <<"extension">> ELSE <<>>)
    \o (IF ~is_valid_date(self.start_date.s) THEN <<"start date">> ELSE <<>>)
    \o (IF Truthy(self.end_date) /\ ~is_valid_date(self.end_date.s)
        THEN <<"end date">> ELSE <<>>)

\* the last lines of AncillaryFilePath.__init__
AncillaryValidated(self) ==
    RaiseIfMessage(AncillaryValidateFilename(self), "InvalidAncillaryFileError", self)

\* AncillaryFilePath.__init__ once extract_filename_components has returned or
\* raised (split): the fields, then validate_filename
\* AncillaryFilePath.__init__ with the end date taken from the start date
AncillaryInitEndFromStart(file, split, dir) ==
    IF ~split.ok
    THEN (IF split.exc = "ValueError" THEN Raise("InvalidAncillaryFileError") ELSE split)
    ELSE AncillaryValidated([kind |-> "ancillary",
                             filename |-> file,
                             data_dir |-> dir,
                             mission |-> split.val["mission"],
                             instrument |-> split.val["instrument"],
                             descriptor |-> split.val["descriptor"],
                             start_date |-> split.val["start_date"],
                             end_date |-> split.val["start_date"],
                             version |-> split.val["version"],
                             extension |-> split.val["extension"]])

AncillaryInit(file, split, dir) ==
    IF ~split.ok
    THEN (IF split.exc = "ValueError" THEN Raise("InvalidAncillaryFileError") ELSE split)
    ELSE AncillaryValidated([kind |-> "ancillary",
                             filename |-> file,
                             data_dir |-> dir,
                             mission |-> split.val["mission"],
                             instrument |-> split.val["instrument"],
                             descriptor |-> split.val["descriptor"],
                             start_date |-> split.val["start_date"],
                             end_date |-> split.val["end_date"],
                             version |-> split.val["version"],
                             extension |-> split.val["extension"]])

\* AncillaryFilePath(filename) with config["DATA_DIR"] = dir
AncillaryFilePath(filename, dir) ==
    AncillaryInit(PathOf(filename), AncillaryExtractFilenameComponents(PathOf(filename)), dir)

\* generate_from_inputs that leaves end_time out of the name
AncillaryGenerateWithoutEnd(instrument, descriptor, version, extension, start_time, end_time, dir) ==
    AncillaryFilePath(Cat(<<<<"i","m","a","p","_">>, instrument, <<"_">>, descriptor, <<"_">>, start_time,
                            <<"_">>, version, <<".">>, extension>>), dir)

\* AncillaryFilePath.generate_from_inputs; end_time is PyNone or a PyStr
AncillaryGenerateFromInputs(instrument, descriptor, version, extension, start_time, end_time, dir) ==
    LET filename ==
            IF Truthy(end_time)
            THEN Cat(<<<<"i","m","a","p","_">>, instrument, <<"_">>, descriptor, <<"_">>, start_time, <<"_">>,
                       end_time.s, <<"_">>, version, <<".">>, extension>>)
            ELSE Cat(<<<<"i","m","a","p","_">>, instrument, <<"_">>, descriptor, <<"_">>, start_time, <<"_">>,
                       version, <<".">>, extension>>)
    IN AncillaryFilePath(filename, dir)

\* AncillaryFilePath.construct_path
AncillaryConstructPath(self) ==
    LET upload_path == PathOf(Cat(<<self.mission.s, <<"/","a","n","c","i","l","l","a","r","y","/">>, self.instrument.s,
                                    <<"/">>, PathStr(self.filename)>>))
    IN IF ~Truthy(self.data_dir) THEN Return(upload_path)
       ELSE Return(PathJoin(self.data_dir, upload_path))

-----------------------------------------------------------------------------
(* SPICE file names: class SPICEFilePath                                   *)

\* _SPICE_TYPE_MAPPING: raw type token -> semantic type
SPICE_TYPE_MAPPING ==
    (<<"a","h",".","b","c">> :> <<"a","t","t","i","t","u","d","e","_","h","i","s","t","o","r","y">>)
    @@ (<<"a","p",".","b","c">> :> <<"a","t","t","i","t","u","d","e","_","p","r","e","d","i","c","t">>)
    @@ (<<"s","p","i","n",".","c","s","v">> :> <<"s","p","i","n">>)
    @@ (<<"r","e","p","o","i","n","t",".","c","s","v">> :> <<"r","e","p","o","i","n","t">>)
    @@ (<<"r","e","c","o","n">> :> <<"e","p","h","e","m","e","r","i","s","_","r","e","c","o","n","s","t","r","u","c","t","e","d">>)
    @@ (<<"n","o","m">> :> <<"e","p","h","e","m","e","r","i","s","_","n","o","m","i","n","a","l">>)
    @@ (<<"p","r","e","d">> :> <<"e","p","h","e","m","e","r","i","s","_","p","r","e","d","i","c","t","e","d">>)
    @@ (<<"9","0","d","a","y","s">> :> <<"e","p","h","e","m","e","r","i","s","_","9","0","d","a","y","s">>)
    @@ (<<"l","o","n","g">> :> <<"e","p","h","e","m","e","r","i","s","_","l","o","n","g">>)
    @@ (<<"l","a","u","n","c","h">> :> <<"e","p","h","e","m","e","r","i","s","_","l","a","u","n","c","h">>)
    @@ (<<"d","e">> :> <<"p","l","a","n","e","t","a","r","y","_","e","p","h","e","m","e","r","i","s">>)
    @@ (<<"p","c","k">> :> <<"p","l","a","n","e","t","a","r","y","_","c","o","n","s","t","a","n","t","s">>)
    @@ (<<"n","a","i","f">> :> <<"l","e","a","p","s","e","c","o","n","d","s">>)
    @@ (<<"i","m","a","p","s","c","l","k","_">> :> <<"s","p","a","c","e","c","r","a","f","t","_","c","l","o","c","k">>)
    @@ (<<"t","f">> :> <<"f","r","a","m","e","s">>)
    @@ (<<"t","m">> :> <<"m","e","t","a","k","e","r","n","e","l">>)
    @@ (<<"s","f","f">> :> <<"t","h","r","u","s","t","e","r">>)

\* _SPICE_DIR_MAPPING: semantic type -> subdirectory
SPICE_DIR_MAPPING ==
    (<<"a","t","t","i","t","u","d","e","_","h","i","s","t","o","r","y">> :> <<"c","k">>)
    @@ (<<"a","t","t","i","t","u","d","e","_","p","r","e","d","i","c","t">> :> <<"c","k">>)
    @@ (<<"s","p","i","n">> :> <<"s","p","i","n">>)
    @@ (<<"r","e","p","o","i","n","t">> :> <<"r","e","p","o","i","n","t">>)
    @@ (<<"e","p","h","e","m","e","r","i","s","_","r","e","c","o","n","s","t","r","u","c","t","e","d">> :> <<"s","p","k">>)
    @@ (<<"e","p","h","e","m","e","r","i","s","_","n","o","m","i","n","a","l">> :> <<"s","p","k">>)
    @@ (<<"e","p","h","e","m","e","r","i","s","_","p","r","e","d","i","c","t","e","d">> :> <<"s","p","k">>)
    @@ (<<"e","p","h","e","m","e","r","i","s","_","9","0","d","a","y","s">> :> <<"s","p","k">>)
    @@ (<<"e","p","h","e","m","e","r","i","s","_","l","o","n","g">> :> <<"s","p","k">>)
    @@ (<<"e","p","h","e","m","e","r","i","s","_","l","a","u","n","c","h">> :> <<"s","p","k">>)
    @@ (<<"p","l","a","n","e","t","a","r","y","_","e","p","h","e","m","e","r","i","s">> :> <<"s","p","k">>)
    @@ (<<"p","l","a","n","e","t","a","r","y","_","c","o","n","s","t","a","n","t","s">> :> <<"p","c","k">>)
    @@ (<<"l","e","a","p","s","e","c","o","n","d","s">> :> <<"l","s","k">>)
    @@ (<<"s","p","a","c","e","c","r","a","f","t","_","c","l","o","c","k">> :> <<"s","c","l","k">>)
    @@ (<<"f","r","a","m","e","s">> :> <<"f","k">>)
    @@ (<<"m","e","t","a","k","e","r","n","e","l">> :> <<"m","k">>)
    @@ (<<"t","h","r","u","s","t","e","r">> :> <<"a","c","t","i","v","i","t","i","e","s">>)

LettersDigitsHyphen == Letters \cup Digits \cup {"-"}

attitude_file_pattern ==
    Group("mission", <<Lit(<<"i","m","a","p">>)>>) \o <<Lit(<<"_">>)>>
    \o Group("start_year", <<Rep(Digits, 4, 4)>>) \o <<Lit(<<"_">>)>>
    \o Group("start_doy", <<Rep(Digits, 3, 3)>>) \o <<Lit(<<"_">>)>>
    \o Group("end_year", <<Rep(Digits, 4, 4)>>) \o <<Lit(<<"_">>)>>
    \o Group("end_doy", <<Rep(Digits, 3, 3)>>) \o <<Lit(<<"_">>)>>
    \o Group("version", <<Plus(Digits)>>) \o <<Lit(<<".">>)>>
    \o Group("type", <<Alt(<< <<Lit(<<"a","h">>), AnyChar, Lit(<<"b","c">>)>>,
                            <<Lit(<<"a","p">>), AnyChar, Lit(<<"b","c">>)>>,
                            <<Lit(<<"s","p","i","n">>), AnyChar, Lit(<<"c","s","v">>)>> >>)>>)

repoint_file_pattern ==
    Group("mission", <<Lit(<<"i","m","a","p">>)>>) \o <<Lit(<<"_">>)>>
    \o Group("start_year", <<Rep(Digits, 4, 4)>>) \o <<Lit(<<"_">>)>>
    \o Group("start_doy", <<Rep(Digits, 3, 3)>>) \o <<Lit(<<"_">>)>>
    \o Group("version", <<Plus(Digits)>>) \o <<Lit(<<".">>)>>
    \o Group("type", <<Lit(<<"r","e","p","o","i","n","t">>), AnyChar, Lit(<<"c","s","v">>)>>)

spacecraft_ephemeris_file_pattern ==
    Group("mission", <<Lit(<<"i","m","a","p">>)>>) \o <<Lit(<<"_">>)>>
    \o Group("type", <<Plus(LettersDigitsHyphen)>>) \o <<Lit(<<"_">>)>>
    \o Group("start_date", <<Rep(Digits, 8, 8)>>) \o <<Lit(<<"_">>)>>
    \o Group("end_date", <<Rep(Digits, 8, 8)>>)
    \o <<Alt(<< <<>>, <<Lit(<<"_","v">>)>> \o Group("version", <<Star(Digits)>>) >>)>>
    \o <<Lit(<<".">>)>>
    \o Group("extension", <<Lit(<<"b","s","p">>)>>)

spice_prod_ver_pattern ==
    Group("type", <<Plus(Letters \cup {"-", "_"})>>)
    \o Group("version", <<Plus(Digits)>>) \o <<Lit(<<".">>)>>
    \o Group("extension", <<Alt(<< <<Lit(<<"t","l","s">>)>>, <<Lit(<<"t","p","c">>)>>,
                                 <<Lit(<<"b","s","p">>)>>, <<Lit(<<"t","s","c">>)>> >>)>>)

spice_frame_pattern ==
    Group("mission", <<Lit(<<"i","m","a","p">>)>>) \o <<Lit(<<"_">>)>>
    \o Group("version", <<Plus(Digits)>>) \o <<Lit(<<".">>)>>
    \o Group("type", <<Lit(<<"t","f">>)>>)

sff_filename_pattern ==
    Group("mission", <<Lit(<<"i","m","a","p">>)>>) \o <<Lit(<<"_">>)>>
    \o Group("start_year", <<Rep(Digits, 4, 4)>>) \o <<Lit(<<"_">>)>>
    \o Group("start_doy", <<Rep(Digits, 3, 3)>>) \o <<Lit(<<"_">>)>>
    \o Group("mode", <<Plus(LettersDigitsHyphen \cup {"_"})>>) \o <<Lit(<<"_">>)>>
    \o Group("version", <<Rep(Digits, 2, 2)>>) \o <<Lit(<<".">>)>>
    \o Group("type", <<Lit(<<"s","f","f">>)>>)

mk_filename_pattern ==
    Group("mission", <<Lit(<<"i","m","a","p">>)>>) \o <<Lit(<<"_">>)>>
    \o Group("start_year", <<Rep(Digits, 4, 4)>>) \o <<Lit(<<"_","v">>)>>
    \o Group("version", <<Rep(Digits, 3, 3)>>) \o <<Lit(<<".">>)>>
    \o Group("type", <<Lit(<<"t","m">>)>>)

valid_spice_regexes ==
    <<attitude_file_pattern, repoint_file_pattern, spacecraft_ephemeris_file_pattern,
      spice_prod_ver_pattern, spice_frame_pattern, sff_filename_pattern,
      mk_filename_pattern>>

RECURSIVE MatchesOnGroup(_, _)
RECURSIVE FirstMatch(_, _, _)
\* SPICEFilePath._matches_on_group: the match of the first regex that matches
MatchesOnGroup(regex_list, string_to_parse) ==
    IF Len(regex_list) = 0 THEN NoMatch
    ELSE FirstMatch(ReMatch(Head(regex_list), string_to_parse),
                    Tail(regex_list), string_to_parse)

\* one turn of the loop of _matches_on_group: m is the match of the regex at hand
FirstMatch(m, others, string_to_parse) ==
    IF m.ok THEN m ELSE MatchesOnGroup(others, string_to_parse)

\* the transform of extract_filename_components for "type"
SpiceTypeTransform(x) ==
    IF x.t = "str" /\ x.s \in DOMAIN SPICE_TYPE_MAPPING
    THEN PyStr(SPICE_TYPE_MAPPING[x.s]) ELSE PyNone

\* the loop of _extract_parts over the groups of the match m, with the
\* transforms of extract_filename_components; version is int(m.group("version"))
SpiceParts(m, version) ==
    IF ~version.ok THEN version
    ELSE Return([t |-> "dict",
                 d |-> [part \in DOMAIN m.caps |->
                          CASE part = "type" -> SpiceTypeTransform(m.caps[part])
                            [] part = "version" -> version.val
                            [] OTHER -> m.caps[part]]])

\* _extract_parts once _matches_on_group has returned m
SpiceExtractParts(m) ==
    IF ~m.ok THEN Return(PyNone) ELSE SpiceParts(m, IntOf(m.caps["version"]))

\* extract_filename_components that matches the file name as it is spelled
SpiceExtractCaseSensitive(filename) ==
    SpiceExtractParts(MatchesOnGroup(valid_spice_regexes, PathName(filename)))

\* SPICEFilePath.extract_filename_components(filename), filename a Path.
\* Returns None (no regex matches) or the dict of parts, or raises what int() raises.
SpiceExtractFilenameComponents(filename) ==
    SpiceExtractParts(MatchesOnGroup(valid_spice_regexes, Lower(PathName(filename))))

\* SPICEFilePath.__init__ once extract_filename_components has returned or raised
SpiceInit(file, spice_metadata) ==
    IF ~spice_metadata.ok THEN spice_metadata
    ELSE IF IsNone(spice_metadata.val) THEN Raise("InvalidSPICEFileError")
    ELSE Return([kind |-> "spice",
                 filename |-> file,
                 spice_metadata |-> spice_metadata.val.d])

\* SPICEFilePath(filename)
SPICEFilePath(filename) ==
    SpiceInit(PathOf(filename), SpiceExtractFilenameComponents(PathOf(filename)))

\* SPICEFilePath.construct_path with config["DATA_DIR"] = dir
SpiceConstructPath(self, dir) ==
    IF IsNone(dir) THEN Raise("TypeError")
    ELSE IF \/ IsNone(self.spice_metadata["type"])
            \/ self.spice_metadata["type"].s \notin DOMAIN SPICE_DIR_MAPPING
         THEN Raise("KeyError")
         ELSE Return(PathJoin(PathJoin(PathJoin(dir, PathOf(<<"s","p","i","c","e">>)),
                                       PathOf(SPICE_DIR_MAPPING[self.spice_metadata["type"].s])),
                              self.filename))

-----------------------------------------------------------------------------
(* The dispatcher                                                          *)

\* the ValueError of the innermost except clause
GenericError ==
    RaiseMsg("ValueError", <<"It does not matchSpice, Science or Ancillary file formats">>)

\* the dispatcher with the Ancillary attempt placed before the Science attempt
DispatchAncillaryBeforeScience(spice, science, ancillary) ==
    IF spice.ok \/ spice.exc # "InvalidSPICEFileError"
    THEN [out |-> spice, consulted |-> <<"spice">>]
    ELSE IF ancillary.ok \/ ancillary.exc # "InvalidAncillaryFileError"
    THEN [out |-> ancillary, consulted |-> <<"spice", "ancillary">>]
    ELSE IF science.ok \/ science.exc # "InvalidScienceFileError"
    THEN [out |-> science, consulted |-> <<"spice", "ancillary", "science">>]
    ELSE [out |-> GenericError, consulted |-> <<"spice", "ancillary", "science">>]

\* The nested try/except of generate_imap_file_path: spice, science and ancillary
\* are what the three constructors return or raise.  Each except clause catches
\* one error class only; any other exception leaves the function.
\* out is what the function returns or raises, consulted the constructors it
\* called, in order.
Dispatch(spice, science, ancillary) ==
    IF spice.ok \/ spice.exc # "InvalidSPICEFileError"
    THEN [out |-> spice, consulted |-> <<"spice">>]
    ELSE IF science.ok \/ science.exc # "InvalidScienceFileError"
    THEN [out |-> science, consulted |-> <<"spice", "science">>]
    ELSE IF ancillary.ok \/ ancillary.exc # "InvalidAncillaryFileError"
    THEN [out |-> ancillary, consulted |-> <<"spice", "science", "ancillary">>]
    ELSE [out |-> GenericError, consulted |-> <<"spice", "science", "ancillary">>]

\* generate_imap_file_path(filename) with config["DATA_DIR"] = dir
generate_imap_file_path(filename, dir) ==
    Dispatch(SPICEFilePath(filename), ScienceFilePath(filename, dir),
             AncillaryFilePath(filename, dir))

\* obj.construct_path() of a path object of any of the three classes
ConstructPath(obj, dir) ==
    CASE obj.kind = "science" -> ScienceConstructPath(obj)
      [] obj.kind = "ancillary" -> AncillaryConstructPath(obj)
      [] obj.kind = "spice" -> SpiceConstructPath(obj, dir)

-----------------------------------------------------------------------------
(* The inputs of the model                                                 *)

\* how many leading directories an input path has at most
MaxDirDepth == 1

\* the largest small repointing number given to generate_from_inputs
MaxRepointing == 2

\* science names, accepted and rejected
ScienceNames ==
    { <<"i","m","a","p","_","m","a","g","_","l","1","a","_","b","u","r","s","t","_","2","0","2","1","0","1","0","1","_","v","0","0","1",".","c","d","f">>,
      <<"i","m","a","p","_","m","a","g","_","l","0","_","r","a","w","_","2","0","2","1","0","1","0","1","_","v","0","0","1",".","p","k","t","s">>,
      <<"i","m","a","p","_","m","a","g","_","l","1","a","_","b","u","r","s","t","_","2","0","2","1","0","1","0","1","-","r","e","p","o","i","n","t","0","0","0","0","1","_","v","0","0","1",".","c","d","f">>,
      <<"i","m","a","p","_","s","w","e","_","l","1","b","_","b","u","r","s","t","-","1","m","i","n","_","2","0","2","0","0","2","2","9","_","v","0","0","1",".","c","d","f">>,
      <<"i","m","a","p","_","m","a","g","_","l","1","a","_","b","u","r","s","t","_","2","0","2","1","0","1","0","1","-","r","e","p","o","i","n","t","0","0","0","0","0","_","v","0","0","1",".","c","d","f">>,
      <<"i","m","a","p","_","m","a","g","_","l","1","a","_","b","u","r","s","t","_","2","0","2","1","0","1","0","1","_","v","0","0","1",".","p","k","t","s">>,
      <<"i","m","a","p","_","m","a","g","_","l","0","_","r","a","w","_","2","0","2","1","0","1","0","1","_","v","0","0","1",".","c","d","f">>,
      <<"i","m","a","p","_","s","d","c","_","l","1","a","_","b","u","r","s","t","_","2","0","2","1","0","1","0","1","_","v","0","0","1",".","c","d","f">>,
      <<"i","m","a","p","_","m","a","g","_","l","9","_","b","u","r","s","t","_","2","0","2","1","0","1","0","1","_","v","0","0","1",".","c","d","f">>,
      <<"i","m","a","p","_","m","a","g","_","l","1","a","_","b","u","r","s","t","_","2","0","2","1","0","1","3","2","_","v","0","0","1",".","c","d","f">>,
      <<"i","m","a","p","_","m","a","g","_","l","1","a","_","b","u","r","s","t","_","2","0","2","1","0","2","2","9","_","v","0","0","1",".","c","d","f">>,
      <<"i","m","a","p","_","m","a","g","_","l","1","a","_","b","u","r","s","t","_","0","0","0","0","0","1","0","1","_","v","0","0","1",".","c","d","f">>,
      <<"i","m","a","p","_","m","a","g","_","l","1","a","_","b","u","r","s","t","_","2","0","2","1","1","3","0","1","_","v","0","0","1",".","c","d","f">>,
      <<"i","m","a","p","_","m","a","g","_","l","1","a","_","b","u","r","s","t","_","2","0","2","1","0","1","0","0","_","v","0","0","1",".","c","d","f">>,
      <<"i","m","a","p","_","m","a","g","_","l","1","a","_","b","u","r","s","t","_","2","0","2","1","0","1","0","1","-","r","e","p","o","i","n","t","0","0","0","1","_","v","0","0","1",".","c","d","f">>,
      <<"i","m","a","p","_","m","a","g","_","l","1","a","_","b","u","r","s","t","_","2","0","2","1","0","1","0","1","-","r","e","p","o","i","n","t","0","0","0","0","0","1","_","v","0","0","1",".","c","d","f">>,
      <<"i","m","a","p","_","m","a","g","_","l","1","a","_","2","0","2","1","0","1","0","1","_","v","0","0","1",".","c","d","f">>,
      <<"i","m","a","p","_","m","a","g","_","l","1","a","_","b","u","r","s","t","_","2","0","2","1","0","1","0","1","_","v","0","0","1",".","t","x","t">>,
      <<"i","m","a","p","_","m","a","g","_","l","1","a","_","b","u","r","s","t","_","2","0","2","1","0","1","0","1","_","v","0","0","1">>,
      <<"i","m","a","p","_","s","d","c","_","l","9","_","b","u","r","s","t","_","2","0","2","1","0","1","3","2","_","v","0","0","1",".","p","k","t","s">>,
      <<"i","m","a","p","_","m","a","g","_","l","1","a","_","b","u","r","s","t","_","2","0","2","1","0","1","0","1","_","v","0","0","1",".","c","d","f","\n">>,
      <<"I","M","A","P","_","M","A","G","_","L","1","A","_","B","U","R","S","T","_","2","0","2","1","0","1","0","1","_","V","0","0","1",".","C","D","F">>,
      <<"i","m","a","p","_","m","a","g","_","l","1","a","_","b","u","r","s","t","_","2","0","2","1","0","1","0","1","_","v","0","1",".","c","d","f">>,
      <<"i","m","a","p","_","m","a","g","_","l","1","a","_","b","u","r","s","t","_","2","0","2","1","0","1","0","1","_","v","0","0","1",".","c","d","f","x">> }

\* ancillary names, accepted and rejected
AncillaryNames ==
    { <<"i","m","a","p","_","m","a","g","_","t","e","s","t","_","2","0","2","1","0","1","0","1","_","2","0","2","1","0","1","0","2","_","v","0","0","1",".","c","d","f">>,
      <<"i","m","a","p","_","m","a","g","_","t","e","s","t","_","2","0","2","1","0","1","0","1","_","v","0","0","1",".","j","s","o","n">>,
      <<"i","m","a","p","_","m","a","g","_","t","e","s","t","_","2","0","2","1","0","1","0","1","_","v","0","0","1",".","c","s","v">>,
      <<"i","m","a","p","_","m","a","g","_","l","1","b","-","c","a","l","_","2","0","2","5","0","1","0","3","_","2","0","2","5","0","1","0","1","_","v","0","0","2",".","c","d","f">>,
      <<"i","m","a","p","_","s","d","c","_","t","e","s","t","_","2","0","2","1","0","1","0","1","_","v","0","0","1",".","c","d","f">>,
      <<"i","m","a","p","_","m","a","g","_","t","e","s","t","_","2","0","2","1","0","1","3","2","_","v","0","0","1",".","c","d","f">>,
      <<"i","m","a","p","_","m","a","g","_","t","e","s","t","_","2","0","2","1","0","1","0","1","_","2","0","2","1","0","1","3","2","_","v","0","0","1",".","c","d","f">> }

\* names that more than one grammar matches
SharedNames ==
    { <<"i","m","a","p","_","m","a","g","_","l","1","a","_","2","0","2","1","0","1","0","1","_","2","0","2","1","0","1","0","2","_","v","0","0","1",".","c","d","f">>,
      <<"i","m","a","p","_","m","a","g","_","1",".","t","l","s","_","2","0","2","1","0","1","0","1","_","v","0","0","1",".","c","d","f">>,
      <<"i","m","a","p","_","m","a","g","_","x","-","2",".","b","s","p","_","2","0","2","1","0","1","0","1","_","v","0","0","1",".","c","s","v">> }

\* SPICE names, accepted and rejected
SpiceNames ==
    { <<"i","m","a","p","_","0","0","0","0","_","0","0","0","_","0","0","0","0","_","0","0","0","_","0","1",".","a","p",".","b","c">>,
      <<"i","m","a","p","_","2","0","2","5","_","1","2","2","_","2","0","2","5","_","1","2","2","_","0","1",".","s","p","i","n",".","c","s","v">>,
      <<"i","m","a","p","_","2","0","2","5","_","1","2","2","_","0","1",".","r","e","p","o","i","n","t",".","c","s","v">>,
      <<"i","m","a","p","_","0","0","0","0","_","v","0","0","0",".","t","m">>,
      <<"i","m","a","p","_","0","0","0","0","_","0","0","0","_","h","i","s","t","_","0","0",".","s","f","f">>,
      <<"i","m","a","p","_","2","0","2","5","_","0","0","1","_","a","_","b","_","0","1",".","s","f","f">>,
      <<"i","m","a","p","_","2","0","2","5","_","0","3","2","_","2","0","2","5","_","0","3","4","_","0","0","3",".","a","h",".","b","c">>,
      <<"i","m","a","p","_","2","0","2","5","_","0","3","2","_","2","0","2","5","_","0","3","4","_","0","0","3",".","a","h","x","b","c">>,
      <<"n","a","i","f","0","0","1","2",".","t","l","s">>,
      <<"d","e","4","4","0",".","b","s","p">>,
      <<"p","c","k","0","0","0","1","0",".","t","p","c">>,
      <<"i","m","a","p","s","c","l","k","_","0","0","0","1",".","t","s","c">>,
      <<"i","m","a","p","_","0","0","1",".","t","f">>,
      <<"i","m","a","p","_","9","0","d","a","y","s","_","2","0","2","5","1","1","2","0","_","2","0","2","6","0","2","2","0","_","v","0","1",".","b","s","p">>,
      <<"i","m","a","p","_","2","0","2","5","_","0","3","2","_","2","0","2","5","_","4","1","0","_","0","0","3",".","a","h",".","b","c">>,
      <<"i","m","a","p","_","9","0","d","a","y","s","_","2","0","2","5","1","3","2","0","_","2","0","2","6","0","2","2","0","_","v","0","1",".","b","s","p">>,
      <<"i","m","a","p","_","t","a","c","o","_","2","0","2","5","1","3","2","0","_","2","0","2","6","0","2","2","0","_","v","0","1",".","b","s","p">>,
      <<"i","m","a","p","_","r","e","c","o","n","_","2","0","2","5","0","1","0","1","_","2","0","2","5","0","1","0","2",".","b","s","p">>,
      <<"i","m","a","p","_","r","e","c","o","n","_","2","0","2","5","0","1","0","1","_","2","0","2","5","0","1","0","2","_","v",".","b","s","p">>,
      <<"n","a","i","f","0","0","1","2",".","t","l","s","x","y","z">>,
      <<"I","M","A","P","_","2","0","2","5","_","v","1","0","0",".","T","M">>,
      <<"N","a","i","f","0","0","1","2",".","T","L","S">>,
      <<"i","m","a","p","_","2","0","2","5","_","v","1","0","0",".","t","m">>,
      <<"i","m","a","p","_","2","0","2","5","_","v","1","0","0","0",".","t","m">>,
      <<"i","m","a","p","_","0","0","0","0","_","0","0","0","_","h","i","s","t","_","0","0","1",".","s","f","f">>,
      <<"f","o","o","1","2",".","b","s","p">> }

\* names of no grammar
OtherNames ==
    { <<"t","e","s","t",".","t","x","t">>,
      <<>> }

BareNames == ScienceNames \cup AncillaryNames \cup SharedNames \cup SpiceNames \cup OtherNames

RECURSIVE Repeat(_, _)
Repeat(s, n) == IF n = 0 THEN <<>> ELSE s \o Repeat(s, n - 1)

\* leading directories: relative and absolute, up to MaxDirDepth deep
DirPrefixes ==
    {Repeat(<<"t","e","s","t","/">>, n) : n \in 0..MaxDirDepth}
    \cup {<<"/">> \o Repeat(<<"t","e","s","t","/">>, n) : n \in 0..MaxDirDepth}

\* the file names and paths given to the constructors and to the dispatcher
FileNames == {pre \o name : pre \in DirPrefixes, name \in BareNames}

\* the values of config["DATA_DIR"]
DataDirs == {PyNone, PathOf(<<"d","a","t","a">>), PathOf(<<"/","a","b","s","/","d","a","t","a">>)}

InInstruments == {<<"m","a","g">>, <<"s","w","e">>, <<"s","d","c">>}
InDataLevels == {<<"l","0">>, <<"l","1","a">>, <<"l","9">>}
InDescriptors == {<<"b","u","r","s","t">>, <<"b","u","r","s","t","-","1","m","i","n">>, <<"l","1","a">>, <<"1",".","t","l","s">>, <<"a","/","b">>, <<>>}
InDates == {<<"2","0","2","1","0","1","0","1">>, <<"2","0","2","0","0","2","2","9">>, <<"2","0","2","1","0","1","3","2">>}
InVersions == {<<"v","0","0","1">>, <<"v","0","1">>}
InRepointings ==
    {PyNone} \cup {PyInt(n) : n \in 0..MaxRepointing}
    \cup {PyInt(99999), PyInt(100000), PyInt(0 - 1)}
InExtensions == {<<"c","d","f">>, <<"c","s","v">>, <<"j","s","o","n">>, <<"t","x","t">>}
InEndTimes == {PyNone, PyStr(<<>>), PyStr(<<"2","0","2","1","0","1","0","2">>), PyStr(<<"2","0","2","0","1","2","3","1">>), PyStr(<<"2","0","2","1","0","1","3","2">>)}

-----------------------------------------------------------------------------
(* The state machine: one call at a time, then construct_path on the       *)
(* object the call returned.                                               *)

NoCall == [op |-> "none"]
NoResult == [ok |-> FALSE, exc |-> "not called", msg |-> <<>>]

Init ==
    /\ data_dir \in DataDirs
    /\ pc = "idle"
    /\ call = NoCall
    /\ result = NoResult
    /\ consulted = <<>>
    /\ path = NoResult
    /\ time_range = NoResult
    /\ collection = <<>>
    /\ wire = <<>>
    /\ deser = <<>>

\* SPICEFilePath(filename)
NewSPICEFilePath(filename) ==
    /\ pc = "idle"
    /\ call' = [op |-> "SPICEFilePath", filename |-> filename]
    /\ result' = SPICEFilePath(filename)
    /\ pc' = "returned"
    /\ UNCHANGED <<data_dir, consulted, path>>
    /\ UNCHANGED input_vars

\* ScienceFilePath(filename)
NewScienceFilePath(filename) ==
    /\ pc = "idle"
    /\ call' = [op |-> "ScienceFilePath", filename |-> filename]
    /\ result' = ScienceFilePath(filename, data_dir)
    /\ pc' = "returned"
    /\ UNCHANGED <<data_dir, consulted, path>>
    /\ UNCHANGED input_vars

\* AncillaryFilePath(filename)
NewAncillaryFilePath(filename) ==
    /\ pc = "idle"
    /\ call' = [op |-> "AncillaryFilePath", filename |-> filename]
    /\ result' = AncillaryFilePath(filename, data_dir)
    /\ pc' = "returned"
    /\ UNCHANGED <<data_dir, consulted, path>>
    /\ UNCHANGED input_vars

\* generate_imap_file_path(filename)
GenerateImapFilePath(filename) ==
    /\ pc = "idle"
    /\ call' = [op |-> "generate_imap_file_path", filename |-> filename]
    /\ result' = generate_imap_file_path(filename, data_dir).out
    /\ consulted' = generate_imap_file_path(filename, data_dir).consulted
    /\ pc' = "returned"
    /\ UNCHANGED <<data_dir, path>>
    /\ UNCHANGED input_vars

\* ScienceFilePath.generate_from_inputs(...)
ScienceGenerate(instrument, data_level, descriptor, start_time, version, repointing) ==
    /\ pc = "idle"
    /\ call' = [op |-> "ScienceFilePath.generate_from_inputs",
                instrument |-> instrument, data_level |-> data_level,
                descriptor |-> descriptor, start_time |-> start_time,
                version |-> version, repointing |-> repointing]
    /\ result' = ScienceGenerateFromInputs(instrument, data_level, descriptor,
                                           start_time, version, repointing, data_dir)
    /\ pc' = "returned"
    /\ UNCHANGED <<data_dir, consulted, path>>
    /\ UNCHANGED input_vars

\* AncillaryFilePath.generate_from_inputs(...)
AncillaryGenerate(instrument, descriptor, version, extension, start_time, end_time) ==
    /\ pc = "idle"
    /\ call' = [op |-> "AncillaryFilePath.generate_from_inputs",
                instrument |-> instrument, descriptor |-> descriptor,
                version |-> version, extension |-> extension,
                start_time |-> start_time, end_time |-> end_time]
    /\ result' = AncillaryGenerateFromInputs(instrument, descriptor, version,
                                             extension, start_time, end_time, data_dir)
    /\ pc' = "returned"
    /\ UNCHANGED <<data_dir, consulted, path>>
    /\ UNCHANGED input_vars

\* obj.construct_path() on the object the call returned
CallConstructPath ==
    /\ pc = "returned"
    /\ result.ok
    /\ path' = ConstructPath(result.val, data_dir)
    /\ pc' = "pathed"
    /\ UNCHANGED <<data_dir, call, result, consulted>>
    /\ UNCHANGED input_vars

\* the object goes out of scope
Discard ==
    /\ pc \in {"returned", "pathed", "ranged"}
    /\ pc' = "idle"
    /\ call' = NoCall
    /\ result' = NoResult
    /\ consulted' = <<>>
    /\ path' = NoResult
    /\ time_range' = NoResult
    /\ UNCHANGED <<data_dir, collection, wire, deser>>

Next ==
    \/ \E filename \in FileNames : NewSPICEFilePath(filename)
    \/ \E filename \in FileNames : NewScienceFilePath(filename)
    \/ \E filename \in FileNames : NewAncillaryFilePath(filename)
    \/ \E filename \in FileNames : GenerateImapFilePath(filename)
    \/ \E instrument \in InInstruments, data_level \in InDataLevels,
          descriptor \in InDescriptors, start_time \in InDates,
          version \in InVersions, repointing \in InRepointings :
            ScienceGenerate(instrument, data_level, descriptor, start_time,
                            version, repointing)
    \/ \E instrument \in InInstruments, descriptor \in InDescriptors,
          version \in InVersions, extension \in InExtensions,
          start_time \in InDates, end_time \in InEndTimes :
            AncillaryGenerate(instrument, descriptor, version, extension,
                              start_time, end_time)
    \/ CallConstructPath
    \/ Discard

Spec == Init /\ [][Next]_vars

-----------------------------------------------------------------------------
(* The date validator called on its own                                    *)

PyBool(b) == [t |-> "bool", b |-> b]

\* the strings given to is_valid_date: a year, a month and a day written in
\* several ways, one after the other
DateYears == {<<"2","0","2","1">>, <<"2","0","2","0">>, <<"0","0","0","0">>, <<"2","1">>}
DateMonths == {<<"0","1">>, <<"1">>, <<"0","2">>, <<"1","2">>, <<"1","3">>, <<"0","0">>, <<"-","0","1">>}
DateDays == {<<"0","1">>, <<"1">>, <<"2","9">>, <<"3","0">>, <<"3","2">>, <<"0">>, <<"-","0","1">>, <<" ","1">>}
InputDates == {y \o m \o d : y \in DateYears, m \in DateMonths, d \in DateDays}

\* ImapFilePath.is_valid_date(input_date)
IsValidDate(input_date) ==
    /\ pc = "idle"
    /\ call' = [op |-> "is_valid_date", input_date |-> input_date]
    /\ result' = Return(PyBool(is_valid_date(input_date)))
    /\ pc' = "returned"
    /\ UNCHANGED <<data_dir, consulted, path>>
    /\ UNCHANGED input_vars

DateNext ==
    \/ \E input_date \in InputDates : IsValidDate(input_date)
    \/ Discard

DateSpec == Init /\ [][DateNext]_vars

-----------------------------------------------------------------------------
(* Processing Inputs: groups of files of one kind, one source and one      *)
(* descriptor                                                              *)

\* ProcessingInputType
SCIENCE_FILE == "science"
ANCILLARY_FILE == "ancillary"
SPICE_FILE == "spice"

\* the constructor a Processing Input of a kind parses its filenames with
FilePathOfKind(kind, filename, dir) ==
    CASE kind = SCIENCE_FILE -> ScienceFilePath(filename, dir)
      [] kind = ANCILLARY_FILE -> AncillaryFilePath(filename, dir)
      [] kind = SPICE_FILE -> SPICEFilePath(filename)

\* the source of a group: the instrument of its files, "spice" for SPICE files
SourceOf(kind, file) == IF kind = SPICE_FILE THEN PyStr(<<"s","p","i","c","e">>) ELSE file.instrument

\* the descriptor of a group: the descriptor of its files (SPICE files have none)
DescriptorOf(kind, file) == IF kind = SPICE_FILE THEN PyNone ELSE file.descriptor

\* the data type of a group: the data level of science files, else the kind
DataTypeOf(kind, file) ==
    CASE kind = SCIENCE_FILE -> file.data_level
      [] kind = ANCILLARY_FILE -> PyStr(<<"a","n","c","i","l","l","a","r","y">>)
      [] kind = SPICE_FILE -> PyStr(<<"s","p","i","c","e">>)

\* all files of a group have the source and the descriptor of the first one
SameSource(kind, files) ==
    \A i \in DOMAIN files :
        /\ SourceOf(kind, files[i]) = SourceOf(kind, files[1])
        /\ DescriptorOf(kind, files[i]) = DescriptorOf(kind, files[1])

\* ProcessingInput.__init__ once every filename went through the constructor
\* of the kind (parsed): the first error of a constructor leaves the call, the
\* files must have one source and one descriptor, then the attributes are set
InputOf(kind, filenames, parsed) ==
    IF \E i \in DOMAIN parsed : ~parsed[i].ok
    THEN parsed[CHOOSE i \in DOMAIN parsed :
                    ~parsed[i].ok /\ \A j \in 1..(i - 1) : parsed[j].ok]
    ELSE IF ~SameSource(kind, [i \in DOMAIN parsed |-> parsed[i].val])
    THEN RaiseMsg("ValueError", <<"same source">>)
    ELSE Return([input_type |-> kind,
                 filename_list |-> filenames,
                 imap_file_paths |-> [i \in DOMAIN parsed |-> parsed[i].val],
                 source |-> SourceOf(kind, parsed[1].val),
                 descriptor |-> DescriptorOf(kind, parsed[1].val),
                 data_type |-> DataTypeOf(kind, parsed[1].val)])

\* ScienceInput(*filenames), AncillaryInput(*filenames), SPICEInput(*filenames)
ProcessingInput(kind, filenames, dir) ==
    InputOf(kind, filenames,
            [i \in DOMAIN filenames |-> FilePathOfKind(kind, filenames[i], dir)])

\* datetime.strptime(s, "%Y%m%d") of the eight digits of a validated date
DateOf(s) ==
    [t |-> "date", year |-> DecimalValue(SubSeq(s, 1, 4)),
     month |-> DecimalValue(SubSeq(s, 5, 6)), day |-> DecimalValue(SubSeq(s, 7, 8))]

\* a < b for two datetime values
DateBefore(a, b) ==
    \/ a.year < b.year
    \/ a.year = b.year /\ a.month < b.month
    \/ a.year = b.year /\ a.month = b.month /\ a.day < b.day

\* the date a file starts at
StartOf(file) == DateOf(file.start_date.s)

\* the date a file ends at: its start date when it has no end date
EndOf(file) ==
    IF "end_date" \in DOMAIN file /\ ~IsNone(file.end_date)
    THEN DateOf(file.end_date.s)
    ELSE StartOf(file)

RECURSIVE TimeRangeFrom(_, _, _, _)
\* the loop of get_time_range over the files from the i-th on
TimeRangeFrom(files, i, start, end) ==
    IF i > Len(files) THEN <<start, end>>
    ELSE TimeRangeFrom(files, i + 1,
                       IF DateBefore(StartOf(files[i]), start) THEN StartOf(files[i]) ELSE start,
                       IF DateBefore(end, EndOf(files[i])) THEN EndOf(files[i]) ELSE end)

\* ProcessingInput.get_time_range()
get_time_range(self) ==
    TimeRangeFrom(self.imap_file_paths, 2,
                  StartOf(self.imap_file_paths[1]), EndOf(self.imap_file_paths[1]))

\* the longest list of filenames given to a Processing Input
MaxFiles == 2

\* the filenames given to the Processing Inputs
InputNames ==
    { <<"i","m","a","p","_","m","a","g","_","l","1","a","_","n","o","r","m","-","m","a","g","i","_","2","0","2","4","0","3","1","2","_","v","0","0","0",".","c","d","f">>,
      <<"i","m","a","p","_","m","a","g","_","l","1","a","_","b","u","r","s","t","-","m","a","g","i","_","2","0","2","4","0","3","1","0","_","v","0","0","0",".","c","d","f">>,
      <<"i","m","a","p","_","g","l","o","w","s","_","l","1","a","_","n","o","r","m","-","m","a","g","i","_","2","0","2","5","0","2","0","2","_","v","0","0","1",".","c","d","f">>,
      <<"i","m","a","p","_","m","a","g","_","l","1","b","-","c","a","l","_","2","0","2","5","0","1","0","1","_","v","0","0","1",".","c","d","f">>,
      <<"i","m","a","p","_","m","a","g","_","l","1","b","-","c","a","l","_","2","0","2","5","0","1","0","3","_","2","0","2","5","0","1","0","4","_","v","0","0","2",".","c","d","f">>,
      <<"i","m","a","p","_","m","a","g","_","l","1","a","-","c","a","l","_","2","0","2","5","0","1","0","5","_","2","0","2","5","0","1","0","2","_","v","0","0","3",".","c","d","f">>,
      <<"i","m","a","p","_","m","a","g","_","l","1","a","_","2","0","2","4","0","3","1","2","_","2","0","2","4","0","3","1","3","_","v","0","0","1",".","c","d","f">> }

InputFileLists ==
    UNION {[1..n -> InputNames] : n \in 1..MaxFiles}

\* ScienceInput(*filenames)
NewScienceInput(filenames) ==
    /\ pc = "idle"
    /\ call' = [op |-> "ScienceInput", filenames |-> filenames]
    /\ result' = ProcessingInput(SCIENCE_FILE, filenames, data_dir)
    /\ pc' = "returned"
    /\ UNCHANGED <<data_dir, consulted, path>>
    /\ UNCHANGED input_vars

\* AncillaryInput(*filenames)
NewAncillaryInput(filenames) ==
    /\ pc = "idle"
    /\ call' = [op |-> "AncillaryInput", filenames |-> filenames]
    /\ result' = ProcessingInput(ANCILLARY_FILE, filenames, data_dir)
    /\ pc' = "returned"
    /\ UNCHANGED <<data_dir, consulted, path>>
    /\ UNCHANGED input_vars

\* get_time_range() on the Processing Input the call returned
GetTimeRange ==
    /\ pc = "returned"
    /\ call.op \in {"ScienceInput", "AncillaryInput"}
    /\ result.ok
    /\ time_range' = Return(get_time_range(result.val))
    /\ pc' = "ranged"
    /\ UNCHANGED <<data_dir, call, result, consulted, path>>
    /\ UNCHANGED <<collection, wire, deser>>

InputNext ==
    \/ \E filenames \in InputFileLists : NewScienceInput(filenames)
    \/ \E filenames \in InputFileLists : NewAncillaryInput(filenames)
    \/ GetTimeRange
    \/ Discard

InputSpec == Init /\ [][InputNext]_vars

-----------------------------------------------------------------------------
(* Collections of Processing Inputs                                        *)

RECURSIVE Distinct(_)
\* a list without the later copies of its elements
Distinct(s) ==
    IF Len(s) = 0 THEN <<>>
    ELSE Distinct(SubSeq(s, 1, Len(s) - 1))
         \o (IF \E i \in 1..(Len(s) - 1) : s[i] = s[Len(s)] THEN <<>> ELSE <<s[Len(s)]>>)

\* serialize that keeps one copy of each filename
SerializeDistinct(members) == Distinct(Cat([i \in DOMAIN members |-> members[i].filename_list]))

\* ProcessingInputCollection.serialize(): the filenames of the members, one
\* member after the other
serialize(members) == Cat([i \in DOMAIN members |-> members[i].filename_list])

\* what groups the files of a deserialized list together
KeyOfFile(file) == <<file.kind, SourceOf(file.kind, file), DescriptorOf(file.kind, file)>>

KeyOfGroup(group) == <<group.input_type, group.source, group.descriptor>>

\* the two ways deserialize may look for the group a file joins: the group
\* made last, or any group made from the same list
GroupingRules == {"consecutive", "matching"}

\* the group among groups that a file of a key joins, 0 when it starts a group
GroupToJoin(groups, key, rule) ==
    IF rule = "consecutive"
    THEN (IF Len(groups) > 0 /\ KeyOfGroup(groups[Len(groups)]) = key THEN Len(groups) ELSE 0)
    ELSE (IF \E g \in DOMAIN groups : KeyOfGroup(groups[g]) = key
          THEN CHOOSE g \in DOMAIN groups :
                   /\ KeyOfGroup(groups[g]) = key
                   /\ \A h \in 1..(g - 1) : KeyOfGroup(groups[h]) # key
          ELSE 0)

\* a group and one more file
Joined(group, filename, file) ==
    [group EXCEPT !.filename_list = Append(@, filename),
                  !.imap_file_paths = Append(@, file)]

\* groups and the file that joins the g-th of them or starts a new group
Clustered(groups, g, filename, file) ==
    IF g = 0
    THEN Append(groups, InputOf(file.kind, <<filename>>, <<Return(file)>>).val)
    ELSE [groups EXCEPT ![g] = Joined(@, filename, file)]

RECURSIVE Cluster(_, _, _, _, _)
\* the loop of deserialize over the dispatched files from the i-th on
Cluster(filenames, files, i, groups, rule) ==
    IF i > Len(filenames) THEN groups
    ELSE Cluster(filenames, files, i + 1,
                 Clustered(groups, GroupToJoin(groups, KeyOfFile(files[i].val), rule),
                           filenames[i], files[i].val),
                 rule)

\* deserialize that starts from an empty member list
DeserializedReplacing(members, filenames, files, rule) ==
    IF \E i \in DOMAIN files : ~files[i].ok THEN members
    ELSE Cluster(filenames, files, 1, <<>>, rule)

\* deserialize once generate_imap_file_path has returned or raised for every
\* filename (files): an error leaves the call and the members as they were,
\* else the new groups come after the members
Deserialized(members, filenames, files, rule) ==
    IF \E i \in DOMAIN files : ~files[i].ok THEN members
    ELSE members \o Cluster(filenames, files, 1, <<>>, rule)

\* ProcessingInputCollection.deserialize(filenames) with config["DATA_DIR"] = dir
deserialize(members, filenames, dir, rule) ==
    Deserialized(members, filenames,
                 [i \in DOMAIN filenames |-> generate_imap_file_path(filenames[i], dir).out],
                 rule)

\* the members of one input type, in the order of the collection
FilesOfType(members, input_type) ==
    SelectSeq(members, LAMBDA member : member.input_type = input_type)

\* ProcessingInputCollection.get_science_files()
get_science_files(members) == FilesOfType(members, SCIENCE_FILE)

\* the most members a collection is given
MaxGroups == 2

\* the Processing Inputs added to a collection: (kind, filenames)
CollectionInputs ==
    { <<ANCILLARY_FILE, << <<"i","m","a","p","_","m","a","g","_","l","1","b","-","c","a","l","_","2","0","2","5","0","1","0","1","_","v","0","0","1",".","c","d","f">>,
                           <<"i","m","a","p","_","m","a","g","_","l","1","b","-","c","a","l","_","2","0","2","5","0","1","0","3","_","2","0","2","5","0","1","0","4","_","v","0","0","2",".","c","d","f">> >> >>,
      <<SCIENCE_FILE, << <<"i","m","a","p","_","m","a","g","_","l","1","a","_","n","o","r","m","-","m","a","g","i","_","2","0","2","4","0","3","1","2","_","v","0","0","0",".","c","d","f">>,
                         <<"i","m","a","p","_","m","a","g","_","l","1","a","_","n","o","r","m","-","m","a","g","i","_","2","0","2","4","0","3","1","2","_","v","0","0","1",".","c","d","f">> >> >>,
      <<SCIENCE_FILE, << <<"i","m","a","p","_","m","a","g","_","l","1","a","_","n","o","r","m","-","m","a","g","i","_","2","0","2","4","0","3","1","2","_","v","0","0","0",".","c","d","f">> >> >>,
      <<SCIENCE_FILE, << <<"i","m","a","p","_","g","l","o","w","s","_","l","1","a","_","h","i","s","t","_","2","0","2","5","0","2","0","2","_","v","0","0","1",".","c","d","f">> >> >>,
      <<ANCILLARY_FILE, << <<"i","m","a","p","_","m","a","g","_","l","1","a","_","2","0","2","1","0","1","0","1","_","2","0","2","1","0","1","0","2","_","v","0","0","1",".","c","d","f">> >> >>,
      <<SCIENCE_FILE, << <<"i","m","a","p","_","m","a","g","_","l","1","a","_","n","o","r","m","-","m","a","g","i","_","2","0","2","4","0","3","1","2","_","v","0","0","0",".","c","d","f">>,
                         <<"i","m","a","p","_","m","a","g","_","l","1","a","_","b","u","r","s","t","-","m","a","g","i","_","2","0","2","4","0","3","1","0","_","v","0","0","0",".","c","d","f">> >> >> }

CollectionNames == {"collection", "deser"}

\* the members of the collection of a name
MembersOf(name) == IF name = "collection" THEN collection ELSE deser

\* collection.add(ScienceInput(*filenames)) or (AncillaryInput(*filenames)):
\* a constructor that raises leaves the collection as it was
Add(kind, filenames) ==
    /\ pc = "idle"
    /\ Len(collection) < MaxGroups
    /\ call' = [op |-> "add", kind |-> kind, filenames |-> filenames, before |-> collection]
    /\ result' = ProcessingInput(kind, filenames, data_dir)
    /\ collection' = IF result'.ok THEN Append(collection, result'.val) ELSE collection
    /\ pc' = "returned"
    /\ UNCHANGED <<data_dir, consulted, path, time_range, wire, deser>>

\* collection.serialize()
Serialize ==
    /\ pc = "idle"
    /\ call' = [op |-> "serialize"]
    /\ result' = Return(serialize(collection))
    /\ wire' = serialize(collection)
    /\ pc' = "returned"
    /\ UNCHANGED <<data_dir, consulted, path, time_range, collection, deser>>

\* name.deserialize(wire), for the list serialize returned last
Deserialize(name, rule) ==
    /\ pc = "idle"
    /\ Len(wire) > 0
    /\ Len(deserialize(MembersOf(name), wire, data_dir, rule)) <= MaxGroups
    /\ call' = [op |-> "deserialize", name |-> name, filenames |-> wire,
                before |-> MembersOf(name)]
    /\ result' = Return(PyNone)
    /\ collection' = IF name = "collection"
                     THEN deserialize(collection, wire, data_dir, rule) ELSE collection
    /\ deser' = IF name = "deser"
                THEN deserialize(deser, wire, data_dir, rule) ELSE deser
    /\ pc' = "returned"
    /\ UNCHANGED <<data_dir, consulted, path, time_range, wire>>

\* name.get_science_files()
GetScienceFiles(name) ==
    /\ pc = "idle"
    /\ call' = [op |-> "get_science_files", name |-> name]
    /\ result' = Return(get_science_files(MembersOf(name)))
    /\ pc' = "returned"
    /\ UNCHANGED <<data_dir, consulted, path>>
    /\ UNCHANGED input_vars

CollectionNext ==
    \/ \E input \in CollectionInputs : Add(input[1], input[2])
    \/ Serialize
    \/ \E name \in CollectionNames, rule \in GroupingRules : Deserialize(name, rule)
    \/ \E name \in CollectionNames : GetScienceFiles(name)
    \/ Discard

\* the collections are followed under one data directory: no operation of a
\* collection reads it
CollectionInit == Init /\ data_dir = PathOf(<<"d","a","t","a">>)

CollectionSpec == CollectionInit /\ [][CollectionNext]_vars

-----------------------------------------------------------------------------
(* Properties of the dispatcher                                            *)

Called == pc \in {"returned", "pathed"}

DispatcherCalled == Called /\ call.op = "generate_imap_file_path"

IsSpiceFirstPrefix(cs) ==
    cs \in {<<"spice">>, <<"spice", "science">>, <<"spice", "science", "ancillary">>}

\* what the dispatcher owes to the three constructors' verdicts on one name
PriorityHolds(spice, science, ancillary) ==
    /\ IsSpiceFirstPrefix(consulted)
    /\ spice.ok => result = spice
    /\ (~spice.ok /\ science.ok) => result = science
    /\ (~spice.ok /\ ~science.ok /\ ancillary.ok) => result = ancillary
    /\ Len(consulted) >= 2 => ~spice.ok
    /\ Len(consulted) >= 3 => ~spice.ok /\ ~science.ok

\* C1: generate_imap_file_path returns the SPICEFilePath if SPICEFilePath accepts
\* the name, otherwise the ScienceFilePath if ScienceFilePath accepts it, otherwise
\* the AncillaryFilePath if AncillaryFilePath accepts it; the constructors are
\* consulted in that order, and a later one only after every earlier one rejected
\* the name.
C1_DispatchPriority ==
    DispatcherCalled =>
        PriorityHolds(SPICEFilePath(call.filename),
                      ScienceFilePath(call.filename, data_dir),
                      AncillaryFilePath(call.filename, data_dir))

\* a name that both ScienceFilePath and AncillaryFilePath accept went to Science
C1_Witness ==
    /\ DispatcherCalled
    /\ result.ok
    /\ result.val.kind = "science"
    /\ consulted = <<"spice", "science">>
    /\ AncillaryFilePath(call.filename, data_dir).ok

\* C2: generate_imap_file_path either returns a path object or raises the generic
\* ValueError that names the three conventions; no other exception leaves it, and
\* the generic error is raised exactly when all three constructors reject the name.
C2_TwoOutcomes ==
    DispatcherCalled =>
        /\ result.ok \/ result = GenericError
        /\ result = GenericError <=>
              /\ ~SPICEFilePath(call.filename).ok
              /\ ~ScienceFilePath(call.filename, data_dir).ok
              /\ ~AncillaryFilePath(call.filename, data_dir).ok

\* the file name a call was about: the argument of a constructor or of the
\* dispatcher, the generated name of generate_from_inputs
NameOfCall ==
    IF call.op \in {"ScienceFilePath.generate_from_inputs",
                    "AncillaryFilePath.generate_from_inputs"}
    THEN PathStr(result.val.filename)
    ELSE call.filename

KindOfCall ==
    CASE call.op \in {"ScienceFilePath", "ScienceFilePath.generate_from_inputs"} -> "science"
      [] call.op \in {"AncillaryFilePath", "AncillaryFilePath.generate_from_inputs"} -> "ancillary"
      [] call.op = "SPICEFilePath" -> "spice"
      [] OTHER -> "any"

SameKind(dispatched, kind) == dispatched.ok /\ dispatched.val.kind = kind

\* C3: a name that a single-kind constructor accepted, or that generate_from_inputs
\* of a kind produced, is dispatched by generate_imap_file_path to an object of
\* that same kind.
C3_KindRecoverable ==
    (Called /\ KindOfCall # "any" /\ result.ok) =>
        SameKind(generate_imap_file_path(NameOfCall, data_dir).out, KindOfCall)

-----------------------------------------------------------------------------
(* Properties of ScienceFilePath                                           *)

ScienceConstructed ==
    Called /\ call.op = "ScienceFilePath"

AllDigits(s) == \A i \in DOMAIN s : s[i] \in Digits

\* YYYYMMDD names a day of the calendar
IsRealDate8(s) ==
    /\ Len(s) = 8
    /\ AllDigits(s)
    /\ IsCalendarDate(DecimalValue(SubSeq(s, 1, 4)),
                      DecimalValue(SubSeq(s, 5, 6)),
                      DecimalValue(SubSeq(s, 7, 8)))

\* the rules of the science convention on the groups of a match m of the pattern
ScienceRulesHold(m) ==
    /\ m.ok
    /\ m.caps["instrument"].s \in VALID_INSTRUMENTS
    /\ m.caps["data_level"].s \in VALID_DATALEVELS
    /\ IsRealDate8(m.caps["start_date"].s)
    /\ m.caps["extension"].s = (IF m.caps["data_level"].s = <<"l","0">> THEN <<"p","k","t","s">> ELSE <<"c","d","f">>)

\* C4: ScienceFilePath(filename) succeeds if and only if the name matches the
\* science pattern, the instrument and the data level are in their valid sets,
\* start_date is a day of the calendar and the extension is pkts for l0 and cdf
\* otherwise; in every other case it raises InvalidScienceFileError.
C4_ScienceAcceptance ==
    ScienceConstructed =>
        /\ result.ok <=> ScienceRulesHold(ReMatch(SciencePattern,
                                                  PathName(PathOf(call.filename))))
        /\ ~result.ok => result.exc = "InvalidScienceFileError"

\* a name that matches the pattern was refused for its extension alone
C4_Witness ==
    /\ ScienceConstructed
    /\ ~result.ok
    /\ result.msg = <<"extension">>

\* the fields of a file name between its underscores
NameFields(filename) == SplitOn(PathName(PathOf(filename)), "_")

HasRepointToken(field) == Len(field) >= 16 /\ SubSeq(field, 9, 16) = <<"-","r","e","p","o","i","n","t">>

\* what the time field of an accepted science name looks like and what
\* repointing it gives
RepointingRule(field, repointing) ==
    /\ AllDigits(SubSeq(field, 1, 8))
    /\ \/ Len(field) = 8 /\ repointing = PyNone
       \/ /\ Len(field) = 21
          /\ HasRepointToken(field)
          /\ AllDigits(SubSeq(field, 17, 21))
          /\ repointing = PyInt(DecimalValue(SubSeq(field, 17, 21)))

\* C5: the repointing suffix of a science name is optional; without it repointing
\* is None, with it the name has "-repoint" and exactly 5 digits right after the
\* 8-digit start date and repointing is the integer value of the digits; a suffix
\* with another number of digits raises InvalidScienceFileError.
C5_Repointing ==
    ScienceConstructed =>
        /\ result.ok =>
              /\ Len(NameFields(call.filename)) = 6
              /\ RepointingRule(NameFields(call.filename)[5], result.val.repointing)
        /\ ( /\ Len(NameFields(call.filename)) >= 5
             /\ HasRepointToken(NameFields(call.filename)[5])
             /\ Len(NameFields(call.filename)[5]) # 21 )
           => (~result.ok /\ result.exc = "InvalidScienceFileError")

\* a name with -repoint00001 was parsed to repointing 1
C5_Witness ==
    /\ ScienceConstructed
    /\ result.ok
    /\ HasRepointToken(NameFields(call.filename)[5])
    /\ result.val.repointing = PyInt(1)

ScienceGenerated == Called /\ call.op = "ScienceFilePath.generate_from_inputs"

IsVersionString(v) == Len(v) = 4 /\ v[1] = "v" /\ AllDigits(SubSeq(v, 2, 4))

HasChar(s, c) == \E i \in DOMAIN s : s[i] = c

\* a valid field tuple of the science generator, as the round trip takes it
ValidScienceInputs(c) ==
    /\ c.instrument \in VALID_INSTRUMENTS
    /\ c.data_level \in VALID_DATALEVELS
    /\ Len(c.descriptor) > 0 /\ ~HasChar(c.descriptor, "_")
    /\ IsRealDate8(c.start_time)
    /\ IsVersionString(c.version)
    /\ IsNone(c.repointing) \/ (c.repointing.n >= 1 /\ c.repointing.n <= 99999)

\* generate_from_inputs succeeded on the inputs c, the object r.val has them as
\* its fields and its file name is accepted by ScienceFilePath
ScienceRoundTrip(c, r) ==
    /\ r.ok
    /\ r.val.instrument = PyStr(c.instrument)
    /\ r.val.data_level = PyStr(c.data_level)
    /\ r.val.descriptor = PyStr(c.descriptor)
    /\ r.val.start_date = PyStr(c.start_time)
    /\ r.val.version = PyStr(c.version)
    /\ r.val.repointing = c.repointing
    /\ r.val.extension = PyStr(IF c.data_level = <<"l","0">> THEN <<"p","k","t","s">> ELSE <<"c","d","f">>)
    /\ ScienceFilePath(PathStr(r.val.filename), data_dir) = r

\* C6 as stated: for every valid field tuple (descriptor any non-empty string
\* without underscores) ScienceFilePath.generate_from_inputs succeeds, the fields
\* of the object equal the inputs and the generated name is accepted.
C6_ScienceRoundTripAsStated ==
    (ScienceGenerated /\ ValidScienceInputs(call)) => ScienceRoundTrip(call, result)

\* C6: for every valid field tuple whose descriptor has neither an underscore nor
\* a "/", ScienceFilePath.generate_from_inputs succeeds, the fields of the object
\* equal the inputs (extension pkts for l0, cdf otherwise) and the generated name
\* is accepted by ScienceFilePath.
C6_ScienceRoundTrip ==
    (ScienceGenerated /\ ValidScienceInputs(call) /\ ~HasChar(call.descriptor, "/"))
        => ScienceRoundTrip(call, result)

\* an l0 file with a repointing number was generated
C6_Witness ==
    /\ ScienceGenerated
    /\ ValidScienceInputs(call)
    /\ call.data_level = <<"l","0">>
    /\ call.repointing = PyInt(99999)
    /\ result.ok
    /\ result.val.extension = PyStr(<<"p","k","t","s">>)

-----------------------------------------------------------------------------
(* Properties of AncillaryFilePath                                         *)

AncillaryGenerated == Called /\ call.op = "AncillaryFilePath.generate_from_inputs"

\* a valid field tuple of the ancillary generator, as the round trip takes it
ValidAncillaryInputs(c) ==
    /\ c.instrument \in VALID_INSTRUMENTS
    /\ Len(c.descriptor) > 0 /\ ~HasChar(c.descriptor, "_")
    /\ IsRealDate8(c.start_time)
    /\ IsNone(c.end_time) \/ IsRealDate8(c.end_time.s)
    /\ IsVersionString(c.version)
    /\ c.extension \in VALID_ANCILLARY_FILE_EXTENSION

AncillaryRoundTrip(c, r) ==
    /\ r.ok
    /\ r.val.instrument = PyStr(c.instrument)
    /\ r.val.descriptor = PyStr(c.descriptor)
    /\ r.val.start_date = PyStr(c.start_time)
    /\ r.val.end_date = c.end_time
    /\ r.val.version = PyStr(c.version)
    /\ r.val.extension = PyStr(c.extension)

\* C7 as stated: for every valid field tuple (descriptor any non-empty string
\* without underscores) AncillaryFilePath.generate_from_inputs succeeds and the
\* fields of the object equal the inputs.
C7_AncillaryRoundTripAsStated ==
    (AncillaryGenerated /\ ValidAncillaryInputs(call)) => AncillaryRoundTrip(call, result)

\* C7: for every valid field tuple whose descriptor has neither an underscore nor
\* a "/", AncillaryFilePath.generate_from_inputs succeeds and the instrument,
\* descriptor, start_date, end_date, version and extension of the object equal the
\* inputs; end_date is None when no end_time was given.
C7_AncillaryRoundTrip ==
    (AncillaryGenerated /\ ValidAncillaryInputs(call) /\ ~HasChar(call.descriptor, "/"))
        => AncillaryRoundTrip(call, result)

\* a file with an end date was generated
C7_Witness ==
    /\ AncillaryGenerated
    /\ ValidAncillaryInputs(call)
    /\ call.end_time = PyStr(<<"2","0","2","1","0","1","0","2">>)
    /\ result.ok
    /\ result.val.end_date = PyStr(<<"2","0","2","1","0","1","0","2">>)

-----------------------------------------------------------------------------
(* Properties of construct_path                                            *)

\* the constructor of the call op on another file name
Construct(op, filename) ==
    CASE op = "SPICEFilePath" -> SPICEFilePath(filename)
      [] op = "ScienceFilePath" -> ScienceFilePath(filename, data_dir)
      [] op = "AncillaryFilePath" -> AncillaryFilePath(filename, data_dir)

\* the object obj and its path p against the object bare that the same
\* constructor makes of the trailing file name alone
SameAsBare(obj, p, bare) ==
    /\ bare.ok
    /\ [obj EXCEPT !.filename = bare.val.filename] = bare.val
    /\ p = ConstructPath(bare.val, data_dir)

\* C8: an input given with leading directories has the same fields and the same
\* construct_path() as its trailing file name given alone, for all three kinds.
C8_PathIgnoresLeadingDirs ==
    (pc = "pathed" /\ call.op \in {"SPICEFilePath", "ScienceFilePath", "AncillaryFilePath"})
        => SameAsBare(result.val, path, Construct(call.op, PathName(PathOf(call.filename))))

\* data_dir / a / b / ... , or a / b / ... when there is no data_dir
UnderDataDir(dir, parts) ==
    IF IsNone(dir) THEN [t |-> "path", abs |-> FALSE, parts |-> parts]
    ELSE [t |-> "path", abs |-> dir.abs, parts |-> dir.parts \o parts]

\* C9: construct_path() of a ScienceFilePath is
\* <data_dir>/imap/<instrument>/<data_level>/<YYYY>/<MM>/<filename>, YYYY and MM
\* the first 4 and the next 2 characters of start_date, <filename> the file name.
C9_SciencePathLayout ==
    (pc = "pathed" /\ result.val.kind = "science") =>
        path = Return(UnderDataDir(data_dir,
                                   <<<<"i","m","a","p">>, result.val.instrument.s,
                                     result.val.data_level.s,
                                     SubSeq(result.val.start_date.s, 1, 4),
                                     SubSeq(result.val.start_date.s, 5, 6),
                                     PathName(result.val.filename)>>))

HasSubdirectory(type) == ~IsNone(type) /\ type.s \in DOMAIN SPICE_DIR_MAPPING

\* C10: every constructed SPICEFilePath has a type with an entry in the
\* subdirectory table, and its construct_path() succeeds and returns
\* <data_dir>/spice/<subdir>/<filename> with <subdir> that entry.
C10_SpicePath ==
    (Called /\ result.ok /\ result.val.kind = "spice") =>
        /\ HasSubdirectory(result.val.spice_metadata["type"])
        /\ (pc = "pathed" /\ ~IsNone(data_dir)) =>
              path = Return(PathJoin(UnderDataDir(data_dir,
                                <<<<"s","p","i","c","e">>,
                                  SPICE_DIR_MAPPING[result.val.spice_metadata["type"].s]>>),
                                result.val.filename))

-----------------------------------------------------------------------------
(* Properties of SPICEFilePath                                             *)

SpiceConstructed == Called /\ call.op = "SPICEFilePath" /\ result.ok

\* the semantic names of the type table
SemanticTypes == {SPICE_TYPE_MAPPING[raw] : raw \in DOMAIN SPICE_TYPE_MAPPING}

\* C11: a name whose raw type token is not a key of the type table is refused by
\* SPICEFilePath, so the type of every constructed SPICEFilePath is one of the
\* semantic names of the table and never None.
C11_SpiceTypeKnown ==
    SpiceConstructed =>
        /\ result.val.spice_metadata["type"].t = "str"
        /\ result.val.spice_metadata["type"].s \in SemanticTypes

NumericParts == {"version", "start_year", "end_year", "start_doy", "end_doy"}

\* the part of the metadata is the int that the digits captured by the match m give
IsIntOfCapture(metadata, m, part) ==
    /\ metadata[part].t = "int"
    /\ metadata[part].n = DecimalValue(m.caps[part].s)

\* C12: in the metadata of a constructed SPICEFilePath every numeric field that
\* the matched grammar captures (version, start_year, end_year, start_doy,
\* end_doy) is an integer, the decimal value of the digits captured.
C12_SpiceNumericFields ==
    SpiceConstructed =>
        \A part \in NumericParts \cap DOMAIN result.val.spice_metadata :
            IsIntOfCapture(result.val.spice_metadata,
                           MatchesOnGroup(valid_spice_regexes,
                                          Lower(PathName(PathOf(call.filename)))),
                           part)

\* the number a metadata value stands for, be it kept as digits or as an int
NumberOf(v) == IF v.t = "int" THEN v.n ELSE DecimalValue(v.s)

\* the days of a year are numbered up to 366; the reference names use day 000
IsDayOfYear(v) == NumberOf(v) <= 366

\* C13: SPICEFilePath refuses a name with a day-of-year that does not exist or
\* with an ephemeris start or end date that is not a day of the calendar, so a
\* constructed SPICEFilePath has none.
C13_SpiceCalendarValues ==
    SpiceConstructed =>
        /\ \A part \in {"start_doy", "end_doy"} \cap DOMAIN result.val.spice_metadata :
              IsDayOfYear(result.val.spice_metadata[part])
        /\ \A part \in {"start_date", "end_date"} \cap DOMAIN result.val.spice_metadata :
              IsRealDate8(result.val.spice_metadata[part].s)

-----------------------------------------------------------------------------
(* Properties of is_valid_date                                             *)

\* C14: is_valid_date(s) is true if and only if s is 8 digits YYYYMMDD that name
\* a day of the calendar; it is false for a string of any other length, for a
\* string with separators and for a day that does not exist.
C14_ValidDateIffRealDate ==
    (Called /\ call.op = "is_valid_date") =>
        (result.val.b <=> IsRealDate8(call.input_date))

-----------------------------------------------------------------------------
(* Properties of the science validation message                            *)

\* the lines of the message a call raised with; none if it returned
MessageOf(r) == IF r.ok THEN <<>> ELSE r.msg

\* one line per rule of the science convention that the groups c of a matched
\* name violate, in the order of the rules
RulesViolated(c) ==
    (IF c["instrument"].s \notin VALID_INSTRUMENTS THEN <<"instrument">> ELSE <<>>)
    \o (IF c["data_level"].s \notin VALID_DATALEVELS THEN <<"data level">> ELSE <<>>)
    \o (IF ~IsRealDate8(c["start_date"].s) THEN <<"start date">> ELSE <<>>)
    \o (IF c["extension"].s # (IF c["data_level"].s = <<"l","0">> THEN <<"p","k","t","s">> ELSE <<"c","d","f">>)
        THEN <<"extension">> ELSE <<>>)

\* what the outcome r of ScienceFilePath owes to the match m of the pattern
ReportsAllViolations(r, m) ==
    m.ok => /\ MessageOf(r) = RulesViolated(m.caps)
            /\ r.ok <=> RulesViolated(m.caps) = <<>>
            /\ ~r.ok => r.exc = "InvalidScienceFileError"

\* C20: for a name that matches the science pattern, the InvalidScienceFileError
\* raised carries one line for every rule violated (instrument, data level, start
\* date, extension), not only the first, and the message is empty exactly when
\* no rule is violated.
C20_AllViolationsReported ==
    ScienceConstructed =>
        ReportsAllViolations(result, ReMatch(SciencePattern, PathName(PathOf(call.filename))))

\* a name that violates four rules at once was refused with four lines
C20_Witness ==
    /\ ScienceConstructed
    /\ ~result.ok
    /\ result.msg = <<"instrument", "data level", "start date", "extension">>

-----------------------------------------------------------------------------
(* Properties of the Processing Inputs                                     *)

InputCalled == pc \in {"returned", "ranged"} /\ call.op \in {"ScienceInput", "AncillaryInput"}

KindOfInput == IF call.op = "ScienceInput" THEN SCIENCE_FILE ELSE ANCILLARY_FILE

\* every filename of the call is one the constructor of the kind accepts
AllValid(kind, filenames, dir) ==
    \A i \in DOMAIN filenames : FilePathOfKind(kind, filenames[i], dir).ok

\* the instrument a filename names: its second field
InstrumentField(filename) == NameFields(filename)[2]

\* the descriptor a filename names: the field after the data level of a
\* science file, the field after the instrument of an ancillary file
DescriptorField(kind, filename) ==
    IF kind = SCIENCE_FILE THEN NameFields(filename)[4] ELSE NameFields(filename)[3]

ShareSource(kind, filenames) ==
    \A i \in DOMAIN filenames :
        /\ InstrumentField(filenames[i]) = InstrumentField(filenames[1])
        /\ DescriptorField(kind, filenames[i]) = DescriptorField(kind, filenames[1])

IsSameSourceError(r) == ~r.ok /\ r.exc = "ValueError" /\ r.msg = <<"same source">>

InputAsGiven(kind, filenames, dir, r) ==
    /\ r.ok
    /\ r.val.input_type = kind
    /\ r.val.source = PyStr(InstrumentField(filenames[1]))
    /\ r.val.descriptor = PyStr(DescriptorField(kind, filenames[1]))
    /\ r.val.filename_list = filenames
    /\ Len(r.val.imap_file_paths) = Len(filenames)
    /\ \A i \in DOMAIN filenames :
           /\ r.val.imap_file_paths[i].kind = kind
           /\ r.val.imap_file_paths[i].filename = PathOf(filenames[i])

\* C15: building a ScienceInput or an AncillaryInput from valid filenames
\* raises a ValueError naming "same source" exactly when the filenames do not
\* all name the same instrument and the same descriptor; otherwise the group
\* has that instrument as its source, that descriptor, the filenames in the
\* order given and one parsed path object of its kind per filename
C15_SameSourceOrGroup ==
    (InputCalled /\ AllValid(KindOfInput, call.filenames, data_dir)) =>
        IF ShareSource(KindOfInput, call.filenames)
        THEN InputAsGiven(KindOfInput, call.filenames, data_dir, result)
        ELSE IsSameSourceError(result)

\* two science files of one instrument and two descriptors
C15_Witness ==
    /\ InputCalled
    /\ call.op = "ScienceInput"
    /\ call.filenames = << <<"i","m","a","p","_","m","a","g","_","l","1","a","_","b","u","r","s","t","-","m","a","g","i","_","2","0","2","4","0","3","1","0","_","v","0","0","0",".","c","d","f">>,
                           <<"i","m","a","p","_","m","a","g","_","l","1","a","_","n","o","r","m","-","m","a","g","i","_","2","0","2","4","0","3","1","2","_","v","0","0","0",".","c","d","f">> >>
    /\ IsSameSourceError(result)

TimeRanged == pc = "ranged" /\ time_range.ok

\* the start date a filename names: the field after the descriptor
StartField(kind, filename) ==
    IF kind = SCIENCE_FILE THEN NameFields(filename)[5] ELSE NameFields(filename)[4]

\* the end date a filename names, its start date when it names none: only an
\* ancillary filename of six fields names an end date, in its fifth field
EndField(kind, filename) ==
    IF kind = ANCILLARY_FILE /\ Len(NameFields(filename)) = 6
    THEN NameFields(filename)[5]
    ELSE StartField(kind, filename)

IsDateValue(v) ==
    /\ DOMAIN v = {"t", "year", "month", "day"}
    /\ v.t = "date"

\* a date value as the number its eight digits write
DateNumber(d) == d.year * 10000 + d.month * 100 + d.day

IsLeast(n, numbers) == n \in numbers /\ \A k \in numbers : n <= k

IsGreatest(n, numbers) == n \in numbers /\ \A k \in numbers : n >= k

EndsAfterStarts(kind, filenames) ==
    \A i \in DOMAIN filenames :
        DecimalValue(StartField(kind, filenames[i])) <= DecimalValue(EndField(kind, filenames[i]))

TimeRangeAsStated(kind, filenames, range) ==
    /\ Len(range) = 2
    /\ IsDateValue(range[1])
    /\ IsDateValue(range[2])
    /\ IsLeast(DateNumber(range[1]),
               {DecimalValue(StartField(kind, filenames[i])) : i \in DOMAIN filenames})
    /\ IsGreatest(DateNumber(range[2]),
                  {DecimalValue(EndField(kind, filenames[i])) : i \in DOMAIN filenames})
    /\ EndsAfterStarts(kind, filenames) => ~DateBefore(range[2], range[1])

\* C16: get_time_range() of a Processing Input returns two date values (not
\* strings), the earliest start date of its files and the latest end date of
\* its files, a file that names no end date counting with its start date; the
\* start is not after the end when no file ends before it starts
C16_TimeRange ==
    TimeRanged => TimeRangeAsStated(KindOfInput, call.filenames, time_range.val)

\* an ancillary group whose first file has no end date and whose second has one
C16_Witness ==
    /\ TimeRanged
    /\ call.op = "AncillaryInput"
    /\ call.filenames = << <<"i","m","a","p","_","m","a","g","_","l","1","b","-","c","a","l","_","2","0","2","5","0","1","0","1","_","v","0","0","1",".","c","d","f">>,
                           <<"i","m","a","p","_","m","a","g","_","l","1","b","-","c","a","l","_","2","0","2","5","0","1","0","3","_","2","0","2","5","0","1","0","4","_","v","0","0","2",".","c","d","f">> >>
    /\ time_range.val = << [t |-> "date", year |-> 2025, month |-> 1, day |-> 1],
                           [t |-> "date", year |-> 2025, month |-> 1, day |-> 4] >>

-----------------------------------------------------------------------------
(* Properties of the collections                                           *)

CollectionCalled(op) == pc = "returned" /\ call.op = op

\* how many times a filename is in a list
Occurrences(filenames, filename) ==
    Cardinality({i \in DOMAIN filenames : filenames[i] = filename})

SameMembership(a, b) ==
    \A filename \in Range(a) \cup Range(b) :
        Occurrences(a, filename) = Occurrences(b, filename)

PairwiseDistinctKeys(members) ==
    \A i, j \in DOMAIN members :
        i # j => <<members[i].input_type, members[i].source, members[i].descriptor>>
                 # <<members[j].input_type, members[j].source, members[j].descriptor>>

SameGroups(a, b) ==
    /\ Len(a) = Len(b)
    /\ \A i \in DOMAIN a :
           /\ a[i].input_type = b[i].input_type
           /\ a[i].descriptor = b[i].descriptor
           /\ Len(a[i].filename_list) = Len(b[i].filename_list)

\* deser was empty and has taken the list that collection serializes to
RoundTripped ==
    /\ CollectionCalled("deserialize")
    /\ call.name = "deser"
    /\ call.before = <<>>
    /\ call.filenames = serialize(collection)

\* C17: a collection serialized and deserialized into an empty collection
\* gives a collection that serializes to the same filenames, each as many times;
\* and when no two groups of the first have the same kind, source and
\* descriptor, the second has as many groups, in the same order, each with the
\* same input type, the same descriptor and as many files
C17_CollectionRoundTrip ==
    RoundTripped =>
        /\ SameMembership(serialize(deser), serialize(collection))
        /\ PairwiseDistinctKeys(collection) => SameGroups(deser, collection)

RECURSIVE FilesBefore(_, _)
\* how many filenames the groups before the i-th hold
FilesBefore(members, i) ==
    IF i <= 1 THEN 0
    ELSE FilesBefore(members, i - 1) + Len(members[i - 1].filename_list)

IsFlatListOf(list, members) ==
    /\ Len(list) = FilesBefore(members, Len(members) + 1)
    /\ \A i \in DOMAIN members : \A j \in DOMAIN members[i].filename_list :
           list[FilesBefore(members, i) + j] = members[i].filename_list[j]

\* C18: serialize() returns one list with a place for every filename of every
\* group, the groups in the order they joined the collection and the filenames
\* of a group in their order there; it is as long as the groups have filenames
C18_SerializeFlat ==
    CollectionCalled("serialize") => IsFlatListOf(result.val, collection)

\* two groups of two files each
C18_Witness ==
    /\ CollectionCalled("serialize")
    /\ Len(collection) = 2
    /\ Len(collection[1].filename_list) = 2
    /\ Len(collection[2].filename_list) = 2
    /\ Len(result.val) = 4

IsPrefix(a, b) == Len(a) <= Len(b) /\ SubSeq(b, 1, Len(a)) = a

\* no operation takes a member away or moves one
Grows == IsPrefix(collection, collection') /\ IsPrefix(deser, deser')

\* the places of the members of an input type
PlacesOfType(members, input_type) ==
    {i \in DOMAIN members : members[i].input_type = input_type}

InOrderOfType(list, members, input_type) ==
    /\ Len(list) = Cardinality(PlacesOfType(members, input_type))
    /\ \A k \in DOMAIN list :
           list[k] = members[Nth(PlacesOfType(members, input_type), k)]

ScienceFilesInOrder ==
    CollectionCalled("get_science_files") =>
        InOrderOfType(result.val, MembersOf(call.name), SCIENCE_FILE)

\* C19: a collection only grows: every step leaves the members it had, in
\* their order, at the front of its member list (add and deserialize put the
\* new groups after them); and get_science_files returns the science members
\* in the order they have in the collection
C19_OnlyGrows == [][Grows]_vars /\ []ScienceFilesInOrder

\* deserialize has put a group after the members a collection had
C19_Witness ==
    /\ CollectionCalled("deserialize")
    /\ call.before # <<>>
    /\ Len(MembersOf(call.name)) > Len(call.before)
    /\ IsPrefix(call.before, MembersOf(call.name))

-----------------------------------------------------------------------------
(* Further properties of the SPICE, data directory and ancillary rules     *)

SpiceCalled == Called /\ call.op = "SPICEFilePath"

\* the lower-cased file name of the call, cut at its underscores
LowerFields(filename) == SplitOn(Lower(PathName(PathOf(filename))), "_")

\* the type tokens of the spacecraft ephemeris files
EphemerisTokens == {<<"r","e","c","o","n">>, <<"n","o","m">>, <<"p","r","e","d">>, <<"9","0","d","a","y","s">>, <<"l","o","n","g">>, <<"l","a","u","n","c","h">>}

IsDate8(s) == Len(s) = 8 /\ AllDigits(s)

\* imap_<type-token>_<start_date8>_<end_date8>.bsp
IsBareEphemerisName(fields) ==
    /\ Len(fields) = 4
    /\ fields[1] = <<"i","m","a","p">>
    /\ fields[2] \in EphemerisTokens
    /\ IsDate8(fields[3])
    /\ Len(fields[4]) = 12
    /\ IsDate8(SubSeq(fields[4], 1, 8))
    /\ SubSeq(fields[4], 9, 12) = <<".","b","s","p">>

\* imap_<type-token>_<start_date8>_<end_date8>_v<digits>.bsp
IsVersionedEphemerisName(fields) ==
    /\ Len(fields) = 5
    /\ fields[1] = <<"i","m","a","p">>
    /\ fields[2] \in EphemerisTokens
    /\ IsDate8(fields[3])
    /\ IsDate8(fields[4])
    /\ Len(fields[5]) >= 6
    /\ fields[5][1] = "v"
    /\ AllDigits(SubSeq(fields[5], 2, Len(fields[5]) - 4))
    /\ SubSeq(fields[5], Len(fields[5]) - 3, Len(fields[5])) = <<".","b","s","p">>

IsEphemerisObject(r, token) ==
    /\ r.ok
    /\ r.val.kind = "spice"
    /\ r.val.spice_metadata["type"] = PyStr(SPICE_TYPE_MAPPING[token])

\* C21: SPICEFilePath accepts a spacecraft ephemeris name with a recognized
\* type token whether or not it has the _v<version> part: the call returns a
\* path object whose type is the ephemeris type of the token and does not raise
C21_EphemerisVersionOptional ==
    (SpiceCalled /\ (\/ IsBareEphemerisName(LowerFields(call.filename))
                     \/ IsVersionedEphemerisName(LowerFields(call.filename)))) =>
        IsEphemerisObject(result, LowerFields(call.filename)[2])

\* the patterns of a list, each made to end where the string ends
Anchored(regex_list) == [i \in DOMAIN regex_list |-> regex_list[i] \o <<Eos>>]

\* the first grammar, in declared order, that the whole lower-cased name is an
\* instance of
WholeNameMatch(filename) ==
    MatchesOnGroup(Anchored(valid_spice_regexes), Lower(PathName(PathOf(filename))))

\* the metadata of r is that of the match m: the captured parts, the type
\* translated and the version as a number
MetadataOfMatch(r, m) ==
    /\ DOMAIN r.val.spice_metadata = DOMAIN m.caps
    /\ \A part \in DOMAIN m.caps :
           r.val.spice_metadata[part] =
               CASE part = "type" -> SpiceTypeTransform(m.caps[part])
                 [] part = "version" -> PyInt(DecimalValue(m.caps[part].s))
                 [] OTHER -> m.caps[part]

WholeNameOnly(r, m) ==
    /\ r.ok => (m.ok /\ MetadataOfMatch(r, m))
    /\ ~m.ok => (~r.ok /\ r.exc = "InvalidSPICEFileError")

\* C22: SPICEFilePath accepts a filename only when the whole lower-cased file
\* name is an instance of one of the seven grammars, with the metadata of the
\* first such grammar in declared order; every other name, also one that goes on
\* after the extension of a conforming name, raises InvalidSPICEFileError
C22_SpiceWholeName ==
    SpiceCalled => WholeNameOnly(result, WholeNameMatch(call.filename))

\* a path object as it is when no data directory is configured
WithoutDataDir(obj) ==
    IF "data_dir" \in DOMAIN obj THEN [obj EXCEPT !.data_dir = PyNone] ELSE obj

\* p is the relative path rel, with the data directory in front when there is one
DataDirIsPrefix(p, dir, rel) ==
    /\ rel.ok
    /\ ~rel.val.abs
    /\ p = IF IsNone(dir) THEN rel ELSE Return(PathJoin(dir, rel.val))

\* C23: construct_path() of a path object of any of the three kinds returns a
\* relative path without raising when no data directory is configured, and
\* that same relative path with the data directory in front when one is
C23_DataDirOptional ==
    pc = "pathed" =>
        DataDirIsPrefix(path, data_dir, ConstructPath(WithoutDataDir(result.val), PyNone))

\* the filenames that differ from a filename in the case of letters at most
CaseVariants(filename) == {other \in FileNames : Lower(other) = Lower(filename)}

\* two calls both return, with the same metadata, or both raise
SameOutcome(a, b) ==
    /\ a.ok <=> b.ok
    /\ a.ok => a.val.spice_metadata = b.val.spice_metadata

\* the last part of the path is the file name as the call spelled it
KeepsSpelling(p, filename) ==
    p.ok => PathName(p.val) = PathName(PathOf(filename))

\* C24: SPICEFilePath treats two filenames that differ only in the case of
\* their letters alike: it accepts both or rejects both, with the same
\* metadata when it accepts them; construct_path() keeps the spelling of the
\* filename it was given
C24_SpiceCaseInsensitive ==
    SpiceCalled =>
        /\ \A other \in CaseVariants(call.filename) : SameOutcome(result, SPICEFilePath(other))
        /\ pc = "pathed" => KeepsSpelling(path, call.filename)

\* a name in capitals that has a lower-case twin, accepted and given its path
C24_Witness ==
    /\ SpiceCalled
    /\ pc = "pathed"
    /\ PathName(PathOf(call.filename)) = <<"I","M","A","P","_","2","0","2","5","_","v","1","0","0",".","T","M">>
    /\ \E other \in CaseVariants(call.filename) : other # call.filename
    /\ result.ok
    /\ result.val.spice_metadata["type"] = PyStr(<<"m","e","t","a","k","e","r","n","e","l">>)
    /\ path.ok
    /\ PathName(path.val) = <<"I","M","A","P","_","2","0","2","5","_","v","1","0","0",".","T","M">>

AncillaryCalled == Called /\ call.op = "AncillaryFilePath"

\* the dates of a matched ancillary name are calendar dates: the start date,
\* and the end date when the name has one
AncillaryDatesReal(c) ==
    /\ IsRealDate8(c["start_date"].s)
    /\ IsNone(c["end_date"]) \/ IsRealDate8(c["end_date"].s)

\* m is the match of the ancillary pattern on the file name of the call
AncillaryDatesDecide(r, m) ==
    (m.ok /\ m.caps["instrument"].s \in VALID_INSTRUMENTS) =>
        /\ r.ok <=> AncillaryDatesReal(m.caps)
        /\ ~r.ok => r.exc = "InvalidAncillaryFileError"

\* C25: a filename that matches the ancillary pattern, with a valid instrument
\* and extension, is accepted whenever its start date is a calendar date and
\* its end date is absent or a calendar date, in whatever order the two dates
\* come; it raises InvalidAncillaryFileError when one of them is no calendar date
C25_AncillaryDatesIndependent ==
    AncillaryCalled =>
        AncillaryDatesDecide(result, ReMatch(AncillaryPattern, PathName(PathOf(call.filename))))

\* an accepted file whose end date is before its start date
C25_Witness ==
    /\ AncillaryCalled
    /\ result.ok
    /\ result.val.start_date = PyStr(<<"2","0","2","5","0","1","0","3">>)
    /\ result.val.end_date = PyStr(<<"2","0","2","5","0","1","0","1">>)

====
